---- MODULE Spec2Model ----
(***************************************************************************)
(* Message orchestration of packages/core/src/bootstrap.ts:                *)
(* messageReceivedHandler (the newer variant, lines 923-1170), the shared  *)
(* latestResponseIds map, the run timeout and the lifecycle events.        *)
(*                                                                         *)
(* One handler invocation is one element of `runs`.  Every action is one   *)
(* synchronous stretch of the handler between two awaits: the code runs on *)
(* a single-threaded event loop, so such a stretch is atomic and other     *)
(* invocations interleave only at the awaits.                              *)
(***************************************************************************)
EXTENDS Integers, Sequences, FiniteSets, TLC

\* ---------------------------------------------------------------- bounds
\* handler invocations in one behaviour of Spec (every input the handler reads)
MaxRuns == 1
\* handler invocations in one behaviour of SpecRace (the racing invocations)
MaxRaceRuns == 2
\* handler invocations of one agent in one behaviour of SpecShared
MaxSharedRuns == 3
\* reactionReceivedHandler invocations in one behaviour of SpecReaction
MaxReactions == 3
\* run timers that fire in one behaviour
MaxTimeouts == 1
\* awaited collaborator calls that reject in one behaviour
MaxFaults == 1
\* fragments a text given to the parser is put together from
MaxFragments == 2
\* successive applications of normalizeJsonString to one text
MaxNormalize == 2
\* pieces (literal text or {{placeholder}}) of a template given to composePrompt
MaxTemplateItems == 2
\* action names in the action list of a response given to processActions
MaxActions == 3
\* providers selected for one call of composeState
MaxProviders == 3
\* log lines emitted in one behaviour of SpecLogs (more than the buffer keeps)
MaxLogs == 102
\* clients that connect to /logs/stream in one behaviour
MaxLogClients == 1
\* POST /tplgen requests in one behaviour
MaxTplRequests == 2
\* ports from the configured one on whose listen outcome is chosen freely
MaxPorts == 4

\* ------------------------------------------------------- program constants
\* bootstrap.ts:1054  const maxRetries = 3
maxRetries == 3
\* agent/src/index.ts:1222  settings.SERVER_PORT || "3000"
DefaultPort == 3000

\* ------------------------------------------------------------- value sets
Agents == {"agentA", "agentB"}
Rooms == {"room1", "room2"}
\* a sender entity that is no agent
User == "user"
\* Map.get of a missing key
Undefined == 0

\* participant states getParticipantUserState can return (null as "NONE")
UserStates == {"MUTED", "NONE"}

\* An incoming Memory, as far as the handler reads it: roomId, entityId and
\* whether content.text (lower-cased) includes the lower-cased character name
\* (a missing text includes nothing).
Messages == [roomId : Rooms, entityId : Agents \cup {User}, mentionsName : BOOLEAN]

\* parseJSONObjectFromText(response) of the should-respond call: null, or an
\* object whose action is missing ("undefined") or one of these strings.
NullObject == [isNull |-> TRUE, action |-> "undefined"]
DecisionObjects ==
    {NullObject} \cup
    [isNull : {FALSE}, action : {"undefined", "RESPOND", "IGNORE", "STOP", "respond"}]

\* parseJSONObjectFromText(response) of the main call: null, or a Content of
\* which only the presence (truthiness) of thought, plan and actions is read:
\* all three present, or exactly one of them missing.
NullContent == [isNull |-> TRUE, thought |-> FALSE, plan |-> FALSE, actions |-> FALSE]
CompleteContent == [isNull |-> FALSE, thought |-> TRUE, plan |-> TRUE, actions |-> TRUE]
Contents ==
    {NullContent, CompleteContent,
     [CompleteContent EXCEPT !.thought = FALSE],
     [CompleteContent EXCEPT !.plan = FALSE],
     [CompleteContent EXCEPT !.actions = FALSE]}

\* ------------------------------------------------------------------ state
VARIABLES
    latestResponseIds,  \* agent id -> reference of its inner map, 0 when absent
    heap,               \* the inner Map objects ever created: ref -> (room -> id)
    runs,               \* the handler invocations, in order of invocation
    nTimeouts,          \* timers fired so far
    nFaults,            \* collaborator rejections so far
    memories,           \* ids of the reaction memories in the message store
    reactions,          \* the reactionReceivedHandler invocations, in order
    parsing,            \* a call of parseJSONObjectFromText / normalizeJsonString
    logBuffer,          \* the log entries the logger's subscriber keeps
    prompting,          \* a call of composePrompt
    dispatching,        \* a call of processActions
    composing,          \* a call of composeState
    logging,            \* the log lines emitted and the /logs/stream clients
    tplgen,             \* the template generator's runtime and /tplgen requests
    portSearch          \* the free-port search of startAgents

\* the state of the event handlers, and the state of the library calls
handlerVars == <<latestResponseIds, heap, runs, nTimeouts, nFaults, memories, reactions>>
libraryVars == <<parsing, logBuffer, prompting, dispatching, composing>>
serverVars == <<logging, tplgen, portSearch>>
vars == <<latestResponseIds, heap, runs, nTimeouts, nFaults, memories, reactions,
          parsing, logBuffer, prompting, dispatching, composing,
          logging, tplgen, portSearch>>

\* ---------------------------------------------------------------- events
RunStartedEvent == [type |-> "RUN_STARTED", status |-> "started", error |-> "none"]
RunTimeoutEvent ==
    [type |-> "RUN_TIMEOUT", status |-> "timeout", error |-> "Run exceeded 5 minute timeout"]
RunEndedEvent == [type |-> "RUN_ENDED", status |-> "completed", error |-> "none"]
RunEndedErrorEvent(err) == [type |-> "RUN_ENDED", status |-> "completed", error |-> err]

\* ------------------------------------------------------- pure predicates
\* Faulty variant of IsFromSelf: the sender is compared with the room id, which it
\* never equals.
IsFromSelfComparesRoom(agentId, message) == message.entityId = message.roomId

\* bootstrap.ts:980  message.entityId === runtime.agentId
IsFromSelf(agentId, message) == message.entityId = agentId

\* Faulty variant of IsMutedIgnore: a muted room is ignored whatever the text.
IsMutedIgnoreWhateverText(agentUserState, message) ==
    agentUserState = "MUTED"

\* bootstrap.ts:992-997
IsMutedIgnore(agentUserState, message) ==
    agentUserState = "MUTED" /\ ~message.mentionsName

\* Faulty variant of ShouldRespond: every action but STOP counts as RESPOND.
ShouldRespondUnlessStop(responseObject) ==
    /\ ~responseObject.isNull
    /\ responseObject.action \notin {"undefined", "STOP"}

\* Faulty variant of ShouldRespond: any truthy action counts as RESPOND.
ShouldRespondAnyAction(responseObject) ==
    /\ ~responseObject.isNull
    /\ responseObject.action # "undefined"

\* bootstrap.ts:1035-1036  responseObject?.action && responseObject.action === "RESPOND"
ShouldRespond(responseObject) ==
    /\ ~responseObject.isNull
    /\ responseObject.action # "undefined"
    /\ responseObject.action = "RESPOND"

\* bootstrap.ts:1057-1059 and 1069-1071
MissingRequired(responseContent) ==
    \/ responseContent.isNull
    \/ ~responseContent.thought
    \/ ~responseContent.plan
    \/ ~responseContent.actions

\* Faulty variant of LoopContinues: the loop runs to the cap whatever was parsed.
LoopContinuesToCap(retries, responseContent) == retries < maxRetries

\* Faulty variant of LoopContinues: off by one in the cap.
LoopContinuesOneMore(retries, responseContent) ==
    retries <= maxRetries /\ MissingRequired(responseContent)

\* bootstrap.ts:1055-1060  the while condition
LoopContinues(retries, responseContent) ==
    retries < maxRetries /\ MissingRequired(responseContent)

\* Faulty variant of IsStale: stale only when the entry was removed, not when it
\* was overwritten.
IsStaleOnlyWhenRemoved(agentResponses, roomId, responseId) ==
    agentResponses[roomId] = Undefined

\* bootstrap.ts:1078-1079  agentResponses.get(message.roomId) !== responseId
IsStale(agentResponses, roomId, responseId) ==
    agentResponses[roomId] # responseId

\* Map.size of an inner map
MapSize(m) == Cardinality({room \in Rooms : m[room] # Undefined})

EmptyMap == [room \in Rooms |-> Undefined]


\* ------------------------------------------------------------ run records
\* Positions of an invocation: the await it is suspended at.
\*   emitStarted      944   await emitEvent(RUN_STARTED)
\*   persist          985   await Promise.all([addEmbeddingToMemory, createMemory])
\*   userState        990   await getParticipantUserState
\*   composeShould    1002  await composeState (should-respond slice)
\*   shouldModel      1022  await useModel (should-respond prompt)
\*   composeFull      1038  await composeState (full)
\*   mainModel        1061  await useModel (message handler prompt)
\*   responseMemory   1102  await createMemory (response)
\*   actions          1122  await processActions
\*   evaluate         1125  await evaluate
\*   emitEnded        1134  await emitEvent(RUN_ENDED) on completion
\*   emitEndedError   1148  await emitEvent(RUN_ENDED) in the catch block
\*   done                   the processing promise has settled
FaultPoints ==
    {"persist", "userState", "composeShould", "shouldModel", "composeFull",
     "mainModel", "responseMemory", "actions", "evaluate"}

\* Faulty variant of NewRun: the incoming message is written before the
\* RUN_STARTED event is emitted.
NewRunPersistsFirst(agentId, message, responseId, ref) ==
    [ agentId |-> agentId,
      message |-> message,
      responseId |-> responseId,
      agentResponses |-> ref,
      pc |-> "emitStarted",
      agentUserState |-> "unread",
      responseObject |-> NullObject,
      shouldRespond |-> FALSE,
      retries |-> 0,
      responseContent |-> NullContent,
      discarded |-> FALSE,
      error |-> "none",
      timer |-> "unset",
      promise |-> "pending",
      calls |-> <<"createMemory">>,
      events |-> << >> ]

\* The locals of one invocation right after lines 928-953.
NewRun(agentId, message, responseId, ref) ==
    [ agentId |-> agentId,
      message |-> message,
      responseId |-> responseId,
      agentResponses |-> ref,
      pc |-> "emitStarted",
      agentUserState |-> "unread",
      responseObject |-> NullObject,
      shouldRespond |-> FALSE,
      retries |-> 0,
      responseContent |-> NullContent,
      discarded |-> FALSE,
      error |-> "none",
      timer |-> "unset",
      promise |-> "pending",
      calls |-> << >>,
      events |-> <<RunStartedEvent>> ]

\* A collaborator call the invocation makes, in order.
Call(r, name) == [r EXCEPT !.calls = Append(@, name)]

\* Faulty variant of Settle: the finally block does not clear the timer.
SettleKeepsTimer(r, outcome) ==
    [r EXCEPT !.pc = "done",
              !.promise = IF @ = "pending" THEN outcome ELSE @]

\* bootstrap.ts:1165-1169  Promise.race settles with the processing promise
\* unless the timeout rejected first; finally clearTimeout(timeoutId).
Settle(r, outcome) ==
    [r EXCEPT !.pc = "done",
              !.promise = IF @ = "pending" THEN outcome ELSE @,
              !.timer = IF @ = "armed" THEN "cleared" ELSE @]

\* bootstrap.ts:1146-1160  catch (error): emit RUN_ENDED with error.message
Catch(r, err) ==
    [r EXCEPT !.pc = "emitEndedError",
              !.error = err,
              !.events = Append(@, RunEndedErrorEvent(err))]

\* no library call under way
NoParsing ==
    [text |-> << >>, pc |-> "idle", result |-> [kind |-> "null", canon |-> << >>],
     normalized |-> << >>]
NoPrompting == [pc |-> "idle"]
NoDispatching == [pc |-> "idle", actions |-> << >>, index |-> 0, trace |-> << >>]
NoComposing ==
    [pc |-> "idle", providers |-> << >>, index |-> 0, threw |-> << >>,
     state |-> << >>, logs |-> << >>]

\* no log line emitted and no stream client; no /tplgen request; no search
NoLogging == [emitted |-> 0, clients |-> << >>]
NoTplgen == [pc |-> "idle"]
NoPortSearch == [pc |-> "idle"]

\* ------------------------------------------------------------------- Init
Init ==
    /\ latestResponseIds = [a \in Agents |-> 0]
    /\ heap = << >>
    /\ runs = << >>
    /\ nTimeouts = 0
    /\ nFaults = 0
    /\ memories = {}
    /\ reactions = << >>
    /\ logging = NoLogging
    /\ tplgen = NoTplgen
    /\ portSearch = NoPortSearch
    /\ parsing = NoParsing
    /\ logBuffer = << >>
    /\ prompting = NoPrompting
    /\ dispatching = NoDispatching
    /\ composing = NoComposing

\* Agent and room ids are opaque: an invocation names a new agent (room) only
\* in a fixed order, which fixes one representative of each renaming.
AgentOrder == <<"agentA", "agentB">>
RoomOrder == <<"room1", "room2">>
UsedAgents == {runs[i].agentId : i \in 1..Len(runs)}
UsedRooms == {runs[i].message.roomId : i \in 1..Len(runs)}
NextIn(order, used) ==
    {order[k] : k \in {j \in 1..Len(order) : \A h \in 1..(j-1) : order[h] \in used}}

\* ---------------------------------------------------------------- actions
\* Faulty variant of Start: an entry the room already has is kept.
StartKeepsExisting(agentId, message) ==
    /\ message.entityId \in {agentId, User}
    /\ LET responseId == Len(runs) + 1
           fresh == latestResponseIds[agentId] = 0
           ref == IF fresh THEN Len(heap) + 1 ELSE latestResponseIds[agentId]
           heap1 == IF fresh THEN Append(heap, EmptyMap) ELSE heap
       IN  /\ latestResponseIds' = [latestResponseIds EXCEPT ![agentId] = ref]
           /\ heap' = [heap1 EXCEPT ![ref][message.roomId] =
                          IF @ = Undefined THEN responseId ELSE @]
           /\ runs' = Append(runs, NewRun(agentId, message, responseId, ref))
    /\ UNCHANGED <<nTimeouts, nFaults, memories, reactions, libraryVars, serverVars>>

\* Faulty variant of Start: one inner map serves every agent.
StartSharedByAllAgents(agentId, message) ==
    /\ message.entityId \in {agentId, User}
    /\ LET responseId == Len(runs) + 1
           fresh == latestResponseIds[AgentOrder[1]] = 0
           ref == IF fresh THEN Len(heap) + 1 ELSE latestResponseIds[AgentOrder[1]]
           heap1 == IF fresh THEN Append(heap, EmptyMap) ELSE heap
       IN  /\ latestResponseIds' = [latestResponseIds EXCEPT ![AgentOrder[1]] = ref]
           /\ heap' = [heap1 EXCEPT ![ref][message.roomId] = responseId]
           /\ runs' = Append(runs, NewRun(agentId, message, responseId, ref))
    /\ UNCHANGED <<nTimeouts, nFaults, memories, reactions, libraryVars, serverVars>>

\* bootstrap.ts:928-953  the synchronous start of the handler: a fresh
\* responseId (v4 is modelled by the invocation's index, which is unique),
\* get-or-create of the agent's inner map, the unconditional overwrite of the
\* room's entry, and the RUN_STARTED event.
Start(agentId, message) ==
    /\ message.entityId \in {agentId, User}
    /\ LET responseId == Len(runs) + 1
           fresh == latestResponseIds[agentId] = 0
           ref == IF fresh THEN Len(heap) + 1 ELSE latestResponseIds[agentId]
           heap1 == IF fresh THEN Append(heap, EmptyMap) ELSE heap
       IN  /\ latestResponseIds' = [latestResponseIds EXCEPT ![agentId] = ref]
           /\ heap' = [heap1 EXCEPT ![ref][message.roomId] = responseId]
           /\ runs' = Append(runs, NewRun(agentId, message, responseId, ref))
    /\ UNCHANGED <<nTimeouts, nFaults, memories, reactions, libraryVars, serverVars>>

\* bootstrap.ts:955-988  after RUN_STARTED: arm the timer, start processing:
\* the self guard throws into the catch block, otherwise both memory-manager
\* calls of Promise.all are issued.
Begin(i) ==
    LET r == runs[i]
        armed == [r EXCEPT !.timer = "armed"]
    IN  /\ r.pc = "emitStarted"
        /\ runs' = [runs EXCEPT ![i] =
               IF IsFromSelf(r.agentId, r.message)
               THEN Catch(armed, "Message is from the agent itself")
               ELSE [Call(Call(armed, "addEmbeddingToMemory"), "createMemory")
                        EXCEPT !.pc = "persist"]]
        /\ UNCHANGED <<latestResponseIds, heap, nTimeouts, nFaults, memories, reactions, libraryVars, serverVars>>

\* bootstrap.ts:990
PersistDone(i) ==
    LET r == runs[i]
    IN  /\ r.pc = "persist"
        /\ runs' = [runs EXCEPT ![i] =
               [Call(r, "getParticipantUserState") EXCEPT !.pc = "userState"]]
        /\ UNCHANGED <<latestResponseIds, heap, nTimeouts, nFaults, memories, reactions, libraryVars, serverVars>>

\* bootstrap.ts:990-1008  the muted check returns from the processing
\* function without any event; otherwise the first composeState is called.
UserStateDone(i, agentUserState) ==
    LET r == [runs[i] EXCEPT !.agentUserState = agentUserState]
    IN  /\ runs[i].pc = "userState"
        /\ runs' = [runs EXCEPT ![i] =
               IF IsMutedIgnore(agentUserState, r.message)
               THEN Settle(r, "resolved")
               ELSE [Call(r, "composeState") EXCEPT !.pc = "composeShould"]]
        /\ UNCHANGED <<latestResponseIds, heap, nTimeouts, nFaults, memories, reactions, libraryVars, serverVars>>

\* bootstrap.ts:1010-1024
ComposeShouldDone(i) ==
    LET r == runs[i]
    IN  /\ r.pc = "composeShould"
        /\ runs' = [runs EXCEPT ![i] =
               [Call(r, "useModel:shouldRespond") EXCEPT !.pc = "shouldModel"]]
        /\ UNCHANGED <<latestResponseIds, heap, nTimeouts, nFaults, memories, reactions, libraryVars, serverVars>>

\* bootstrap.ts:1031-1038  responseObject.providers is read without a null
\* check: a null parse result throws a TypeError into the catch block.
ShouldModelDone(i, responseObject) ==
    LET r == [runs[i] EXCEPT !.responseObject = responseObject]
    IN  /\ runs[i].pc = "shouldModel"
        /\ runs' = [runs EXCEPT ![i] =
               IF responseObject.isNull
               THEN Catch(r, "TypeError: responseObject is null")
               ELSE [Call(r, "composeState")
                        EXCEPT !.pc = "composeFull",
                               !.shouldRespond = ShouldRespond(responseObject)]]
        /\ UNCHANGED <<latestResponseIds, heap, nTimeouts, nFaults, memories, reactions, libraryVars, serverVars>>

\* bootstrap.ts:1040-1063 and 1125  after the full composeState: the first
\* iteration of the retry loop (responseContent is null, retries is 0), or the
\* evaluator call when the decision was not RESPOND.
ComposeFullDone(i) ==
    LET r == runs[i]
    IN  /\ r.pc = "composeFull"
        /\ runs' = [runs EXCEPT ![i] =
               IF r.shouldRespond /\ LoopContinues(r.retries, r.responseContent)
               THEN [Call(r, "useModel:messageHandler") EXCEPT !.pc = "mainModel"]
               ELSE [Call(r, "evaluate") EXCEPT !.pc = "evaluate"]]
        /\ UNCHANGED <<latestResponseIds, heap, nTimeouts, nFaults, memories, reactions, libraryVars, serverVars>>

\* Faulty variant of CleanupAndDispatch: a content with a missing required field is
\* not dispatched, the run goes on to the evaluators.
CleanupAndDispatchOnlyComplete(i, r) ==
    LET inner == [heap[r.agentResponses] EXCEPT ![r.message.roomId] = Undefined]
    IN  /\ heap' = [heap EXCEPT ![r.agentResponses] = inner]
        /\ latestResponseIds' =
               IF MapSize(inner) = 0
               THEN [latestResponseIds EXCEPT ![r.agentId] = 0]
               ELSE latestResponseIds
        /\ runs' = [runs EXCEPT ![i] =
               IF MissingRequired(r.responseContent)
               THEN [Call(r, "evaluate") EXCEPT !.pc = "evaluate"]
               ELSE [Call(r, "processActions") EXCEPT !.pc = "actions"]]

\* Faulty variant of CleanupAndDispatch: the agent's entry stays when its inner
\* map has become empty.
CleanupKeepsAgentEntry(i, r) ==
    LET inner == [heap[r.agentResponses] EXCEPT ![r.message.roomId] = Undefined]
    IN  /\ heap' = [heap EXCEPT ![r.agentResponses] = inner]
        /\ latestResponseIds' = latestResponseIds
        /\ runs' = [runs EXCEPT ![i] = [Call(r, "processActions") EXCEPT !.pc = "actions"]]

\* bootstrap.ts:1116-1122  delete the room's entry from the inner map captured
\* at the start, drop the agent's entry when that map is empty, and call
\* processActions.
CleanupAndDispatch(i, r) ==
    LET inner == [heap[r.agentResponses] EXCEPT ![r.message.roomId] = Undefined]
    IN  /\ heap' = [heap EXCEPT ![r.agentResponses] = inner]
        /\ latestResponseIds' =
               IF MapSize(inner) = 0
               THEN [latestResponseIds EXCEPT ![r.agentId] = 0]
               ELSE latestResponseIds
        /\ runs' = [runs EXCEPT ![i] = [Call(r, "processActions") EXCEPT !.pc = "actions"]]

\* bootstrap.ts:1065-1122  a main-model result: count the attempt, loop again
\* while a required field is missing and attempts remain; after the loop the
\* freshness check, which returns without event when the id was replaced; then
\* the response memory is written when there is a content, else cleanup and
\* dispatch follow at once.
MainModelDone(i, responseContent) ==
    LET r == [runs[i] EXCEPT !.responseContent = responseContent, !.retries = @ + 1]
    IN  /\ runs[i].pc = "mainModel"
        /\ IF LoopContinues(r.retries, r.responseContent)
           THEN /\ runs' = [runs EXCEPT ![i] = Call(r, "useModel:messageHandler")]
                /\ UNCHANGED <<latestResponseIds, heap>>
           ELSE IF IsStale(heap[r.agentResponses], r.message.roomId, r.responseId)
           THEN /\ runs' = [runs EXCEPT ![i] = Settle([r EXCEPT !.discarded = TRUE], "resolved")]
                /\ UNCHANGED <<latestResponseIds, heap>>
           ELSE IF ~r.responseContent.isNull
           THEN /\ runs' = [runs EXCEPT ![i] =
                       [Call(r, "createMemory:response") EXCEPT !.pc = "responseMemory"]]
                /\ UNCHANGED <<latestResponseIds, heap>>
           ELSE CleanupAndDispatch(i, r)
        /\ UNCHANGED <<nTimeouts, nFaults, memories, reactions, libraryVars, serverVars>>

\* bootstrap.ts:1114-1122
ResponseMemoryDone(i) ==
    /\ runs[i].pc = "responseMemory"
    /\ CleanupAndDispatch(i, runs[i])
    /\ UNCHANGED <<nTimeouts, nFaults, memories, reactions, libraryVars, serverVars>>

\* Faulty variant of ActionsDone: the completion event is emitted when the
\* dispatch returns, without the evaluator run.
ActionsDoneSkipsEvaluate(i) ==
    LET r == runs[i]
    IN  /\ r.pc = "actions"
        /\ runs' = [runs EXCEPT ![i] =
               [r EXCEPT !.pc = "emitEnded", !.events = Append(@, RunEndedEvent)]]
        /\ UNCHANGED <<latestResponseIds, heap, nTimeouts, nFaults, memories, reactions, libraryVars, serverVars>>

\* bootstrap.ts:1122-1131
ActionsDone(i) ==
    LET r == runs[i]
    IN  /\ r.pc = "actions"
        /\ runs' = [runs EXCEPT ![i] = [Call(r, "evaluate") EXCEPT !.pc = "evaluate"]]
        /\ UNCHANGED <<latestResponseIds, heap, nTimeouts, nFaults, memories, reactions, libraryVars, serverVars>>

\* bootstrap.ts:1125-1145
EvaluateDone(i) ==
    LET r == runs[i]
    IN  /\ r.pc = "evaluate"
        /\ runs' = [runs EXCEPT ![i] =
               [r EXCEPT !.pc = "emitEnded", !.events = Append(@, RunEndedEvent)]]
        /\ UNCHANGED <<latestResponseIds, heap, nTimeouts, nFaults, memories, reactions, libraryVars, serverVars>>

\* bootstrap.ts:1145, 1163-1169  the processing promise resolves
EmitEndedDone(i) ==
    /\ runs[i].pc = "emitEnded"
    /\ runs' = [runs EXCEPT ![i] = Settle(runs[i], "resolved")]
    /\ UNCHANGED <<latestResponseIds, heap, nTimeouts, nFaults, memories, reactions, libraryVars, serverVars>>

\* Faulty variant of EmitEndedErrorDone: the catch block does not re-throw.
EmitEndedErrorSwallowed(i) ==
    /\ runs[i].pc = "emitEndedError"
    /\ runs' = [runs EXCEPT ![i] = Settle(runs[i], "resolved")]
    /\ UNCHANGED <<latestResponseIds, heap, nTimeouts, nFaults, memories, reactions, libraryVars, serverVars>>

\* bootstrap.ts:1161, 1163-1169  throw error: the processing promise rejects
EmitEndedErrorDone(i) ==
    /\ runs[i].pc = "emitEndedError"
    /\ runs' = [runs EXCEPT ![i] = Settle(runs[i], "rejected:error")]
    /\ UNCHANGED <<latestResponseIds, heap, nTimeouts, nFaults, memories, reactions, libraryVars, serverVars>>

\* An awaited collaborator call rejects (bootstrap.ts:985-1131, any await in
\* the try block): control goes to the catch block.  The error is named after
\* the call that failed.
Fault(i) ==
    /\ nFaults < MaxFaults
    /\ runs[i].pc \in FaultPoints
    /\ runs' = [runs EXCEPT ![i] = Catch(runs[i], runs[i].pc)]
    /\ nFaults' = nFaults + 1
    /\ UNCHANGED <<latestResponseIds, heap, nTimeouts, memories, reactions, libraryVars, serverVars>>

\* bootstrap.ts:960-973  the timer callback starts: RUN_TIMEOUT is emitted
TimeoutFire(i) ==
    /\ nTimeouts < MaxTimeouts
    /\ runs[i].timer = "armed"
    /\ runs' = [runs EXCEPT ![i] =
           [runs[i] EXCEPT !.timer = "firing", !.events = Append(@, RunTimeoutEvent)]]
    /\ nTimeouts' = nTimeouts + 1
    /\ UNCHANGED <<latestResponseIds, heap, nFaults, memories, reactions, libraryVars, serverVars>>

\* Faulty variant of TimeoutReject: the timeout also abandons processing.
TimeoutRejectCancels(i) ==
    /\ runs[i].timer = "firing"
    /\ runs' = [runs EXCEPT ![i] =
           [runs[i] EXCEPT !.timer = "fired",
                           !.pc = "done",
                           !.promise = IF @ = "pending" THEN "rejected:timeout" ELSE @]]
    /\ UNCHANGED <<latestResponseIds, heap, nTimeouts, nFaults, memories, reactions, libraryVars, serverVars>>

\* bootstrap.ts:974, 1165-1169  reject(new Error(...)): the race rejects when
\* processing has not settled it; processing itself is not interrupted.
TimeoutReject(i) ==
    /\ runs[i].timer = "firing"
    /\ runs' = [runs EXCEPT ![i] =
           [runs[i] EXCEPT !.timer = "fired",
                           !.promise = IF @ = "pending" THEN "rejected:timeout" ELSE @]]
    /\ UNCHANGED <<latestResponseIds, heap, nTimeouts, nFaults, memories, reactions, libraryVars, serverVars>>

Next ==
    \/ \E agentId \in NextIn(AgentOrder, UsedAgents) :
       \E message \in Messages :
          /\ Len(runs) < MaxRuns
          /\ message.roomId \in NextIn(RoomOrder, UsedRooms)
          /\ Start(agentId, message)
    \/ \E i \in 1..Len(runs) :
          \/ Begin(i)
          \/ PersistDone(i)
          \/ \E agentUserState \in UserStates : UserStateDone(i, agentUserState)
          \/ ComposeShouldDone(i)
          \/ \E responseObject \in DecisionObjects : ShouldModelDone(i, responseObject)
          \/ ComposeFullDone(i)
          \/ \E responseContent \in Contents : MainModelDone(i, responseContent)
          \/ ResponseMemoryDone(i)
          \/ ActionsDone(i)
          \/ EvaluateDone(i)
          \/ EmitEndedDone(i)
          \/ EmitEndedErrorDone(i)
          \/ Fault(i)

\* Every input the handler reads, and rejecting collaborators.  The run timer
\* is armed but does not fire here: it never changes what processing does
\* (TimeoutFire and TimeoutReject write only timer, events and promise), and
\* SpecTimeout lets it fire.
Spec == Init /\ [][Next]_vars

\* ------------------------------------------------- the racing invocations
\* The same handler, with several invocations in flight and the inputs that
\* decide nothing about the shared map held to one value each: the sender is
\* a user, the room is not muted, no collaborator rejects and no timer fires.
\* The decision is RESPOND or IGNORE and the main call's output is complete
\* or unparseable.
RaceMessages == {m \in Messages : m.entityId = User /\ ~m.mentionsName}
RaceDecisions == {d \in DecisionObjects : d.action \in {"RESPOND", "IGNORE"}}
RaceContents == {CompleteContent, NullContent}

NextRace ==
    \/ \E agentId \in NextIn(AgentOrder, UsedAgents) :
       \E message \in RaceMessages :
          /\ Len(runs) < MaxRaceRuns
          /\ message.roomId \in NextIn(RoomOrder, UsedRooms)
          /\ Start(agentId, message)
    \/ \E i \in 1..Len(runs) :
          \/ Begin(i)
          \/ PersistDone(i)
          \/ UserStateDone(i, "NONE")
          \/ ComposeShouldDone(i)
          \/ \E responseObject \in RaceDecisions : ShouldModelDone(i, responseObject)
          \/ ComposeFullDone(i)
          \/ \E responseContent \in RaceContents : MainModelDone(i, responseContent)
          \/ ResponseMemoryDone(i)
          \/ ActionsDone(i)
          \/ EvaluateDone(i)
          \/ EmitEndedDone(i)

SpecRace == Init /\ [][NextRace]_vars

\* --------------------------------------------------------- the run timeout
\* The handler with its timer firing at any moment after it is armed.  The
\* inputs are those that select the ways processing settles: the self guard
\* (error), the muted return, a null decision (error), a decision other than
\* RESPOND, RESPOND with a complete content, and a rejecting collaborator.
TimeoutMessages == Messages
TimeoutDecisions == {d \in DecisionObjects : d.isNull \/ d.action \in {"RESPOND", "IGNORE"}}

NextTimeout ==
    \/ \E agentId \in NextIn(AgentOrder, UsedAgents) :
       \E message \in TimeoutMessages :
          /\ Len(runs) < MaxRuns
          /\ message.roomId \in NextIn(RoomOrder, UsedRooms)
          /\ Start(agentId, message)
    \/ \E i \in 1..Len(runs) :
          \/ Begin(i)
          \/ PersistDone(i)
          \/ \E agentUserState \in UserStates : UserStateDone(i, agentUserState)
          \/ ComposeShouldDone(i)
          \/ \E responseObject \in TimeoutDecisions : ShouldModelDone(i, responseObject)
          \/ ComposeFullDone(i)
          \/ MainModelDone(i, CompleteContent)
          \/ ResponseMemoryDone(i)
          \/ ActionsDone(i)
          \/ EvaluateDone(i)
          \/ EmitEndedDone(i)
          \/ EmitEndedErrorDone(i)
          \/ Fault(i)
          \/ TimeoutFire(i)
          \/ TimeoutReject(i)

SpecTimeout == Init /\ [][NextTimeout]_vars

\* ------------------------------------------------- the shared tracking map
\* The same handler, with up to MaxSharedRuns invocations of one agent in
\* flight, each deciding RESPOND with a complete content, so that every one of
\* them reaches the freshness check and, when it passes, the cleanup.  The
\* messages come from a user in an unmuted room, no collaborator rejects and
\* no timer fires.
SharedAgent == AgentOrder[1]
SharedDecision == [isNull |-> FALSE, action |-> "RESPOND"]

NextShared ==
    \/ \E message \in RaceMessages :
          /\ Len(runs) < MaxSharedRuns
          /\ message.roomId \in NextIn(RoomOrder, UsedRooms)
          /\ Start(SharedAgent, message)
    \/ \E i \in 1..Len(runs) :
          \/ Begin(i)
          \/ PersistDone(i)
          \/ UserStateDone(i, "NONE")
          \/ ComposeShouldDone(i)
          \/ ShouldModelDone(i, SharedDecision)
          \/ ComposeFullDone(i)
          \/ MainModelDone(i, CompleteContent)
          \/ ResponseMemoryDone(i)
          \/ ActionsDone(i)
          \/ EvaluateDone(i)
          \/ EmitEndedDone(i)

SpecShared == Init /\ [][NextShared]_vars


\* ------------------------------------------------- reactionReceivedHandler
\* bootstrap.ts:1180-1196 (the older variant, 233-249, is the same code).
\* The message store keeps memory ids unique: createMemory of an id it holds
\* rejects with the duplicate-key code, and any createMemory may reject with
\* another error.
ReactionMessageIds == {"reaction1", "reaction2"}
DuplicateKey == "23505"
OtherErrorCodes == {"ECONNRESET"}

\* Faulty variant of ReactionCatch: only the duplicate key is absorbed, any
\* other error is thrown on.
ReactionCatchRethrowsOthers(r, code) ==
    IF code = DuplicateKey
    THEN [r EXCEPT !.pc = "done", !.code = code, !.promise = "resolved",
                   !.logs = Append(@, "warn: Duplicate reaction memory, skipping")]
    ELSE [r EXCEPT !.pc = "done", !.code = code, !.promise = "rejected"]

\* bootstrap.ts:1189-1195  catch (error): warn and return on code 23505,
\* otherwise logger.error; the function then ends without throwing.
ReactionCatch(r, code) ==
    IF code = DuplicateKey
    THEN [r EXCEPT !.pc = "done", !.code = code, !.promise = "resolved",
                   !.logs = Append(@, "warn: Duplicate reaction memory, skipping")]
    ELSE [r EXCEPT !.pc = "done", !.code = code, !.promise = "resolved",
                   !.logs = Append(@, "error: Error in reaction handler")]

\* bootstrap.ts:1180-1188  the handler is invoked and calls createMemory
ReactionStart(id) ==
    /\ reactions' = Append(reactions,
           [message |-> id, pc |-> "createMemory", code |-> "none",
            promise |-> "pending", calls |-> <<"createMemory">>, logs |-> << >>])
    /\ UNCHANGED <<latestResponseIds, heap, runs, nTimeouts, nFaults, memories, libraryVars, serverVars>>

\* bootstrap.ts:1188-1193  createMemory settles by the store's unique
\* constraint: the memory is written, or the call rejects with code 23505
ReactionCreateDone(i) ==
    LET r == reactions[i]
    IN  /\ r.pc = "createMemory"
        /\ IF r.message \in memories
           THEN /\ reactions' = [reactions EXCEPT ![i] = ReactionCatch(r, DuplicateKey)]
                /\ memories' = memories
           ELSE /\ reactions' = [reactions EXCEPT ![i] =
                       [r EXCEPT !.pc = "done", !.promise = "resolved"]]
                /\ memories' = memories \cup {r.message}
        /\ UNCHANGED <<latestResponseIds, heap, runs, nTimeouts, nFaults, libraryVars, serverVars>>

\* bootstrap.ts:1188-1195  createMemory rejects with another error
ReactionCreateFails(i, code) ==
    /\ reactions[i].pc = "createMemory"
    /\ reactions' = [reactions EXCEPT ![i] = ReactionCatch(reactions[i], code)]
    /\ UNCHANGED <<latestResponseIds, heap, runs, nTimeouts, nFaults, memories, libraryVars, serverVars>>

NextReaction ==
    \/ \E id \in ReactionMessageIds :
          /\ Len(reactions) < MaxReactions
          /\ ReactionStart(id)
    \/ \E i \in 1..Len(reactions) :
          \/ ReactionCreateDone(i)
          \/ \E code \in OtherErrorCodes : ReactionCreateFails(i, code)

SpecReaction == Init /\ [][NextReaction]_vars

\* ------------------------------------------------------------- strings
\* A string is the sequence of its characters.  The library functions below
\* are modelled over texts of the characters of Letters, Digits and the
\* punctuation of the inputs (no backslash: JSON escapes do not arise).
Letters ==
    {"a", "b", "c", "d", "e", "f", "g", "h", "i", "j", "k", "l", "m",
     "n", "o", "p", "q", "r", "s", "t", "u", "v", "w", "x", "y", "z",
     "A", "B", "C", "D", "E", "F", "G", "H", "I", "J", "K", "L", "M",
     "N", "O", "P", "Q", "R", "S", "T", "U", "V", "W", "X", "Y", "Z"}
Digits == {"0", "1", "2", "3", "4", "5", "6", "7", "8", "9"}
\* the regular-expression classes \s, \w, [\w\d_-] and [A-Za-z_]
IsSpace(c) == c \in {" ", "\n", "\t", "\r"}
IsWordChar(c) == c \in Letters \cup Digits \cup {"_"}
IsKeyChar(c) == IsWordChar(c) \/ c = "-"
IsAlphaUnderscore(c) == c \in Letters \cup {"_"}
IsDigit(c) == c \in Digits
\* the character at index i, the empty string past either end
At(s, i) == IF i \in 1..Len(s) THEN s[i] ELSE ""
StartsWithAt(s, i, lit) ==
    /\ i >= 1
    /\ i + Len(lit) - 1 <= Len(s)
    /\ \A k \in 1..Len(lit) : s[i + k - 1] = lit[k]
Least(S) == CHOOSE x \in S : \A y \in S : x <= y
Greatest(S) == CHOOSE x \in S : \A y \in S : y <= x
\* the end of the longest run of characters of a class that starts at i: the
\* first index from i on whose character is outside the class (greedy + or *)
SpanEnd(s, i, InClass(_)) ==
    Least({j \in i..(Len(s) + 1) : j = Len(s) + 1 \/ ~InClass(s[j])})
\* body applied to the value of an expression (the value is computed once)
With(value, Body(_)) == CHOOSE result \in {Body(x) : x \in {value}} : TRUE
\* the first index from i on that holds character c, 0 when there is none
IndexOfChar(s, c, i) ==
    LET found == {j \in i..Len(s) : s[j] = c}
    IN  IF found = {} THEN 0 ELSE Least(found)
\* String.prototype.trim
Trim(s) ==
    LET kept == {i \in 1..Len(s) : ~IsSpace(s[i])}
    IN  IF kept = {} THEN << >> ELSE SubSeq(s, Least(kept), Greatest(kept))

\* README.md:365  jsonBlockPattern: three backticks, json, a line feed,
\* the group ([\s\S]*?), a line feed, three backticks
\* (the character U+0060 cannot stand in a string literal here: it is named)
Backtick == "backtick"
OpenFence == <<Backtick, Backtick, Backtick, "j", "s", "o", "n", "\n">>
CloseFence == <<"\n", Backtick, Backtick, Backtick>>
ClosesAfter(text, i) ==
    {j \in (i + Len(OpenFence))..Len(text) : StartsWithAt(text, j, CloseFence)}
OpensOfBlocks(text) ==
    {i \in 1..Len(text) : StartsWithAt(text, i, OpenFence) /\ ClosesAfter(text, i) # {}}
NoBlock == [found |-> FALSE, group |-> << >>]

\* Faulty variant of JsonBlockMatch: the last fenced block is taken.
JsonBlockMatchLast(text) ==
    IF OpensOfBlocks(text) = {} THEN NoBlock
    ELSE LET i == Greatest(OpensOfBlocks(text))
             j == Least(ClosesAfter(text, i))
         IN  [found |-> TRUE, group |-> SubSeq(text, i + Len(OpenFence), j - 1)]

\* README.md:516  text.match(jsonBlockPattern): the leftmost opening fence
\* that a closing fence follows, and the shortest contents up to one (*?)
JsonBlockMatch(text) ==
    IF OpensOfBlocks(text) = {} THEN NoBlock
    ELSE LET i == Least(OpensOfBlocks(text))
             j == Least(ClosesAfter(text, i))
         IN  [found |-> TRUE, group |-> SubSeq(text, i + Len(OpenFence), j - 1)]

\* ------------------------------------------------------------ JSON.parse
\* A parsed value is kept as its kind and its text without insignificant
\* white space; a SyntaxError is the record with ok = FALSE.
SyntaxError == [ok |-> FALSE, next |-> 0, kind |-> "error", canon |-> << >>]
Parsed(next, kind, canon) ==
    [ok |-> TRUE, next |-> next, kind |-> kind, canon |-> canon]

\* a string opening at i: up to the next quote, no control character inside
ParseString(s, i) ==
    LET j == IndexOfChar(s, "\"", i + 1)
    IN  IF j = 0 \/ \E k \in (i + 1)..(j - 1) : s[k] \in {"\n", "\t", "\r"}
        THEN SyntaxError
        ELSE Parsed(j + 1, "string", SubSeq(s, i, j))

\* -? (0 | [1-9][0-9]*) (. [0-9]+)? ([eE] [+-]? [0-9]+)?
ParseNumber(s, i) ==
    LET d == IF At(s, i) = "-" THEN i + 1 ELSE i
        intEnd == IF At(s, d) = "0" THEN d + 1 ELSE SpanEnd(s, d, IsDigit)
        fracEnd == IF At(s, intEnd) = "." THEN SpanEnd(s, intEnd + 1, IsDigit) ELSE intEnd
        fracOk == At(s, intEnd) = "." => fracEnd > intEnd + 1
        hasExp == At(s, fracEnd) \in {"e", "E"}
        expFrom == IF At(s, fracEnd + 1) \in {"+", "-"} THEN fracEnd + 2 ELSE fracEnd + 1
        expEnd == IF hasExp THEN SpanEnd(s, expFrom, IsDigit) ELSE fracEnd
        expOk == hasExp => expEnd > expFrom
    IN  IF intEnd > d /\ fracOk /\ expOk
        THEN Parsed(expEnd, "number", SubSeq(s, i, expEnd - 1))
        ELSE SyntaxError

RECURSIVE ParseValue(_, _), ParseMembers(_, _, _), ParseElements(_, _, _)
\* the value that starts at i (white space before it already skipped)
ParseValue(s, i) ==
    LET c == At(s, i)
    IN  CASE c = "{" ->
                With(SpanEnd(s, i + 1, IsSpace), LAMBDA j :
                    IF At(s, j) = "}"
                    THEN Parsed(j + 1, "object", <<"{", "}">>)
                    ELSE ParseMembers(s, j, <<"{">>))
          [] c = "[" ->
                With(SpanEnd(s, i + 1, IsSpace), LAMBDA j :
                    IF At(s, j) = "]"
                    THEN Parsed(j + 1, "array", <<"[", "]">>)
                    ELSE ParseElements(s, j, <<"[">>))
          [] c = "\"" -> ParseString(s, i)
          [] c = "-" \/ IsDigit(c) -> ParseNumber(s, i)
          [] StartsWithAt(s, i, <<"t", "r", "u", "e">>) ->
                Parsed(i + 4, "boolean", <<"t", "r", "u", "e">>)
          [] StartsWithAt(s, i, <<"f", "a", "l", "s", "e">>) ->
                Parsed(i + 5, "boolean", <<"f", "a", "l", "s", "e">>)
          [] StartsWithAt(s, i, <<"n", "u", "l", "l">>) ->
                Parsed(i + 4, "null", <<"n", "u", "l", "l">>)
          [] OTHER -> SyntaxError
\* after a member or an element that ends before index d: a comma and the
\* next one, or the closing character
AfterItem(s, d, acc, close, kind, isMember) ==
    CASE At(s, d) = "," ->
            With(<<SpanEnd(s, d + 1, IsSpace), acc \o <<",">> >>, LAMBDA next :
                IF isMember
                THEN ParseMembers(s, next[1], next[2])
                ELSE ParseElements(s, next[1], next[2]))
      [] At(s, d) = close -> Parsed(d + 1, kind, acc \o <<close>>)
      [] OTHER -> SyntaxError
\* the members of an object from i on: "key" : value, then a comma or the brace
ParseMembers(s, i, acc) ==
    IF At(s, i) # "\"" THEN SyntaxError
    ELSE With(ParseString(s, i), LAMBDA key :
            IF ~key.ok THEN SyntaxError
            ELSE With(SpanEnd(s, key.next, IsSpace), LAMBDA c :
                    IF At(s, c) # ":" THEN SyntaxError
                    ELSE With(ParseValue(s, SpanEnd(s, c + 1, IsSpace)), LAMBDA v :
                            IF ~v.ok THEN SyntaxError
                            ELSE With(<<SpanEnd(s, v.next, IsSpace),
                                        acc \o key.canon \o <<":">> \o v.canon>>,
                                      LAMBDA after :
                                          AfterItem(s, after[1], after[2], "}",
                                                    "object", TRUE)))))
\* the elements of an array from i on: value, then a comma or the bracket
ParseElements(s, i, acc) ==
    With(ParseValue(s, i), LAMBDA v :
        IF ~v.ok THEN SyntaxError
        ELSE With(<<SpanEnd(s, v.next, IsSpace), acc \o v.canon>>, LAMBDA after :
                 AfterItem(s, after[1], after[2], "]", "array", FALSE)))
\* JSON.parse(s): one value with nothing but white space around it
JSONParse(s) ==
    With(ParseValue(s, SpanEnd(s, 1, IsSpace)), LAMBDA v :
        IF v.ok /\ SpanEnd(s, v.next, IsSpace) = Len(s) + 1 THEN v ELSE SyntaxError)

\* --------------------------------------------------- normalizeJsonString
NoMatch == [ok |-> FALSE, end |-> 0, rep |-> << >>]
Matched(end, rep) == [ok |-> TRUE, end |-> end, rep |-> rep]
\* "[\w\d_-]+" opening at p: the index of its closing quote, 0 when no match
QuotedWordEnd(s, p) ==
    IF At(s, p) # "\"" THEN 0
    ELSE LET k == SpanEnd(s, p + 1, IsKeyChar)
         IN  IF k > p + 1 /\ At(s, k) = "\"" THEN k ELSE 0
\* README.md:595  the lookahead (?=(,\s*"|\}$)) at index e
ValueEndsAt(s, e) ==
    \/ At(s, e) = "," /\ At(s, SpanEnd(s, e + 1, IsSpace)) = "\""
    \/ At(s, e) = "}" /\ e = Len(s)
\* README.md:594-597  /("[\w\d_-]+")\s*: \s*(?!"|\[)([\s\S]+?)(?=(,\s*"|\}$))/
\* at p, replaced by  $1: "$2".  The second \s* is greedy and gives white
\* space back until the value may start; the value is the shortest one.
MatchUnquotedValue(s, p) ==
    LET k == QuotedWordEnd(s, p)
    IN  IF k = 0 THEN NoMatch
        ELSE LET c == SpanEnd(s, k + 1, IsSpace)
             IN  IF At(s, c) # ":" \/ At(s, c + 1) # " " THEN NoMatch
                 ELSE LET w == SpanEnd(s, c + 2, IsSpace)
                          ends(q) == {e \in (q + 1)..Len(s) : ValueEndsAt(s, e)}
                          starts == {q \in (c + 2)..w :
                                        /\ q <= Len(s)
                                        /\ At(s, q) \notin {"\"", "["}
                                        /\ ends(q) # {}}
                      IN  IF starts = {} THEN NoMatch
                          ELSE LET q == Greatest(starts)
                                   e == Least(ends(q))
                               IN  Matched(e, SubSeq(s, p, k) \o <<":", " ", "\"">>
                                              \o SubSeq(s, q, e - 1) \o <<"\"">>)
\* README.md:600-603  /"([^"]+)"\s*:\s*'([^']*)'/ at p, replaced by
\* "key": "value"
MatchSingleQuotedValue(s, p) ==
    IF At(s, p) # "\"" THEN NoMatch
    ELSE LET k == IndexOfChar(s, "\"", p + 1)
         IN  IF k = 0 \/ k = p + 1 THEN NoMatch
             ELSE LET c == SpanEnd(s, k + 1, IsSpace)
                  IN  IF At(s, c) # ":" THEN NoMatch
                      ELSE LET a == SpanEnd(s, c + 1, IsSpace)
                               b == IndexOfChar(s, "'", a + 1)
                           IN  IF At(s, a) # "'" \/ b = 0 THEN NoMatch
                               ELSE Matched(b + 1,
                                      <<"\"">> \o SubSeq(s, p + 1, k - 1)
                                      \o <<"\"", ":", " ", "\"">>
                                      \o SubSeq(s, a + 1, b - 1) \o <<"\"">>)
\* README.md:606  /("[\w\d_-]+")\s*:\s*([A-Za-z_]+)(?!["\w])/ at p, replaced
\* by  $1: "$2".  A shorter word never helps: a letter would follow it.
MatchBarewordValue(s, p) ==
    LET k == QuotedWordEnd(s, p)
    IN  IF k = 0 THEN NoMatch
        ELSE LET c == SpanEnd(s, k + 1, IsSpace)
             IN  IF At(s, c) # ":" THEN NoMatch
                 ELSE LET a == SpanEnd(s, c + 1, IsSpace)
                          l == SpanEnd(s, a, IsAlphaUnderscore)
                      IN  IF l = a \/ At(s, l) = "\"" \/ IsWordChar(At(s, l))
                          THEN NoMatch
                          ELSE Matched(l, SubSeq(s, p, k) \o <<":", " ", "\"">>
                                          \o SubSeq(s, a, l - 1) \o <<"\"">>)
\* README.md:609  /(?:"')|(?:'")/ at p, replaced by "
MatchQuotePair(s, p) ==
    IF \/ At(s, p) = "\"" /\ At(s, p + 1) = "'"
       \/ At(s, p) = "'" /\ At(s, p + 1) = "\""
    THEN Matched(p + 2, <<"\"">>)
    ELSE NoMatch
MatchAt(rule, s, p) ==
    CASE rule = "unquotedValue" -> MatchUnquotedValue(s, p)
      [] rule = "singleQuotedValue" -> MatchSingleQuotedValue(s, p)
      [] rule = "barewordValue" -> MatchBarewordValue(s, p)
      [] rule = "quotePair" -> MatchQuotePair(s, p)
\* String.prototype.replace with a /g pattern: the leftmost match from the
\* current index is replaced and the search goes on behind it
RECURSIVE ReplaceAll(_, _, _)
ReplaceAll(rule, s, from) ==
    With({p \in from..Len(s) : MatchAt(rule, s, p).ok}, LAMBDA hits :
        IF hits = {} THEN SubSeq(s, from, Len(s))
        ELSE With(Least(hits), LAMBDA p :
                With(MatchAt(rule, s, p), LAMBDA m :
                    SubSeq(s, from, p - 1) \o m.rep \o ReplaceAll(rule, s, m.end))))
\* README.md:591  replace(/\{\s+/, '{') without /g: the first match only
ReplaceFirstBraceSpace(s) ==
    LET hits == {p \in 1..Len(s) : s[p] = "{" /\ IsSpace(At(s, p + 1))}
    IN  IF hits = {} THEN s
        ELSE SubSeq(s, 1, Least(hits))
             \o SubSeq(s, SpanEnd(s, Least(hits) + 1, IsSpace), Len(s))
\* README.md:591  replace(/\s+\}/, '}') without /g: the first match only
ReplaceFirstSpaceBrace(s) ==
    LET hits == {p \in 1..Len(s) : IsSpace(s[p]) /\ At(s, SpanEnd(s, p, IsSpace)) = "}"}
    IN  IF hits = {} THEN s
        ELSE SubSeq(s, 1, Least(hits) - 1)
             \o SubSeq(s, SpanEnd(s, Least(hits), IsSpace), Len(s))

\* README.md:589-611
normalizeJsonString(str) ==
    With(Trim(ReplaceFirstSpaceBrace(ReplaceFirstBraceSpace(str))), LAMBDA trimmed :
        With(ReplaceAll("unquotedValue", trimmed, 1), LAMBDA unquoted :
            With(ReplaceAll("singleQuotedValue", unquoted, 1), LAMBDA single :
                With(ReplaceAll("barewordValue", single, 1), LAMBDA bareword :
                    ReplaceAll("quotePair", bareword, 1)))))

\* README.md:512-539.  The value returned (null as the value of kind "null")
\* and whether logger.warn was called on the way.
NullValue == [kind |-> "null", canon |-> << >>]
ParseWarning == "Could not parse text as JSON, returning null"
parseJSONObjectFromText(text) ==
    With(JsonBlockMatch(text), LAMBDA jsonBlockMatch :
        With(With(IF jsonBlockMatch.found
                  THEN Trim(jsonBlockMatch.group)
                  ELSE normalizeJsonString(Trim(text)),
                  JSONParse),
             LAMBDA jsonData :
                 IF ~jsonData.ok
                 THEN [value |-> NullValue, warned |-> TRUE]
                 ELSE IF jsonData.kind = "object"
                      THEN [value |-> [kind |-> "object", canon |-> jsonData.canon],
                            warned |-> FALSE]
                      ELSE [value |-> NullValue, warned |-> TRUE]))

\* part_002:95-107  the subscriber of the logger keeps the last entries;
\* logger.ts:86-94 hands every log line written to each subscriber
LOG_BUFFER_SIZE == 100
\* Faulty variant of addToLogBuffer: a full buffer drops the new entry.
addToLogBufferKeepsOldest(buffer, logData) ==
    LET pushed == Append(buffer, logData)
    IN  IF Len(pushed) > LOG_BUFFER_SIZE THEN SubSeq(pushed, 1, LOG_BUFFER_SIZE) ELSE pushed

addToLogBuffer(buffer, logData) ==
    LET pushed == Append(buffer, logData)
    IN  IF Len(pushed) > LOG_BUFFER_SIZE THEN Tail(pushed) ELSE pushed

\* ---------------------------------------------------- texts to be parsed
\* prose without braces
Prose ==
    <<"n", "o", " ", "d", "a", "t", "a", " ", "h", "e", "r", "e">>
\* well-formed JSON without fences
PlainObject ==
    <<"{", "\"", "a", "\"", ":", " ", "1", "}">>
\* bareword keys and a single-quoted value
BarewordObject ==
    <<"{", "a", ":", " ", "1", ",", " ", "b", ":", " ", "'", "x", "'", "}">>
\* a fenced block of well-formed JSON
FencedA ==
    <<Backtick, Backtick, Backtick, "j", "s", "o", "n", "\n", "{", "\"", 
      "a", "\"", ":", " ", "1", "}", "\n", Backtick, Backtick, Backtick>>
\* another one
FencedB ==
    <<Backtick, Backtick, Backtick, "j", "s", "o", "n", "\n", "{", "\"", 
      "b", "\"", ":", " ", "\"", "x", "\"", "}", "\n", Backtick, Backtick, 
      Backtick>>
\* a fenced block whose contents are no JSON
FencedBroken ==
    <<Backtick, Backtick, Backtick, "j", "s", "o", "n", "\n", "{", "\"", 
      "b", "\"", ":", " ", "'", "x", "'", "}", "\n", Backtick, Backtick, 
      Backtick>>
\* a nested object, spaced out
NestedObject ==
    <<"{", " ", "\"", "a", "\"", ":", " ", "{", " ", "\"", "b", "\"", ":", 
      " ", "1", " ", "}", " ", "}">>
\* white space
Space ==
    <<" ">>
\* an array
ArrayText ==
    <<"[", "\"", "x", "\"", "]">>
\* a single-quoted value
SingleQuotedObject ==
    <<"{", "\"", "b", "\"", ":", " ", "'", "x", "'", "}">>
\* an adjacent quote pair
QuotePair ==
    <<"\"", "'">>
\* an unquoted bareword value
BarewordValue ==
    <<"{", "\"", "a", "c", "t", "i", "o", "n", "\"", ":", " ", "R", "E", 
      "S", "P", "O", "N", "D", "}">>
Fragments ==
    {Prose, PlainObject, BarewordObject, FencedA, FencedB, FencedBroken,
     NestedObject, Space, ArrayText, SingleQuotedObject, QuotePair, BarewordValue}
RECURSIVE Concat(_)
Concat(fs) == IF fs = << >> THEN << >> ELSE Head(fs) \o Concat(Tail(fs))
\* the empty text, and every text of up to MaxFragments fragments
Texts == {Concat(fs) : fs \in UNION {[1..n -> Fragments] : n \in 0..MaxFragments}}

InitParse ==
    /\ latestResponseIds = [a \in Agents |-> 0]
    /\ heap = << >>
    /\ runs = << >>
    /\ nTimeouts = 0
    /\ nFaults = 0
    /\ memories = {}
    /\ reactions = << >>
    /\ logging = NoLogging
    /\ tplgen = NoTplgen
    /\ portSearch = NoPortSearch
    /\ parsing \in {[NoParsing EXCEPT !.text = text, !.pc = "called"] : text \in Texts}
    /\ logBuffer = << >>
    /\ prompting = NoPrompting
    /\ dispatching = NoDispatching
    /\ composing = NoComposing

\* README.md:512-539  one call of parseJSONObjectFromText(text); a warning
\* it logs reaches the log buffer through the logger's subscription
ParseJSONObjectFromText ==
    /\ parsing.pc = "called"
    /\ \E r \in {parseJSONObjectFromText(parsing.text)} :
           /\ parsing' = [parsing EXCEPT !.pc = "returned", !.result = r.value]
           /\ logBuffer' = IF r.warned
                           THEN addToLogBuffer(logBuffer, ParseWarning)
                           ELSE logBuffer
    /\ UNCHANGED <<handlerVars, serverVars, prompting, dispatching, composing>>

\* README.md:589-611  normalizeJsonString applied to the text, and again to
\* what the application before returned
NormalizeJsonString ==
    /\ parsing.pc # "idle"
    /\ Len(parsing.normalized) < MaxNormalize
    /\ LET str == IF parsing.normalized = << >>
                  THEN parsing.text
                  ELSE parsing.normalized[Len(parsing.normalized)]
       IN  parsing' = [parsing EXCEPT !.normalized = Append(@, normalizeJsonString(str))]
    /\ UNCHANGED <<handlerVars, serverVars, logBuffer, prompting, dispatching, composing>>

NextParse ==
    \/ ParseJSONObjectFromText
    \/ NormalizeJsonString

SpecParse == InitParse /\ [][NextParse]_vars

\* ---------------------------------------------------------- composePrompt
\* A template is the sequence of its pieces: literal text, or a {{name}}
\* expression (mustache = TRUE, text = the name).  A rendered prompt is the
\* sequence of the texts the pieces became.
\* README.md:177  composeRandomUser(templateFunction(state), 10)
RandomUserCount == 10
\* README.md:230  the search strings `{{user${i + 1}}}`
UserPlaceholders ==
    <<"{{user1}}", "{{user2}}", "{{user3}}", "{{user4}}", "{{user5}}",
      "{{user6}}", "{{user7}}", "{{user8}}", "{{user9}}", "{{user10}}">>
\* names uniqueNamesGenerator can return
Names == {"John", "Alice"}
TemplateItems ==
    {[mustache |-> FALSE, text |-> "Hello"],
     [mustache |-> TRUE, text |-> "agentName"],
     [mustache |-> TRUE, text |-> "user1"],
     [mustache |-> TRUE, text |-> "user2"]}
Templates == UNION {[1..n -> TemplateItems] : n \in 0..MaxTemplateItems}
\* state objects: with no user key, with a user1 key, and with a value that
\* itself holds the text {{user1}} (an example taken from the character)
States ==
    {[agentName |-> "Eliza"],
     [agentName |-> "Eliza", user1 |-> "Bob"],
     [agentName |-> "{{user1}}"]}
\* README.md:141-143, 176  handlebars.compile(templateStr)(state): each
\* expression becomes the value of its key, the empty string without one
Handlebars(templateStr, state) ==
    [k \in 1..Len(templateStr) |->
        IF templateStr[k].mustache
        THEN IF templateStr[k].text \in DOMAIN state
             THEN state[templateStr[k].text]
             ELSE ""
        ELSE templateStr[k].text]
\* README.md:228-231  for each i: result.replaceAll(`{{user${i + 1}}}`, exampleNames[i])
RECURSIVE ReplaceUsers(_, _, _)
ReplaceUsers(result, exampleNames, i) ==
    IF i > Len(exampleNames) THEN result
    ELSE ReplaceUsers([k \in 1..Len(result) |->
                          IF result[k] = UserPlaceholders[i]
                          THEN exampleNames[i]
                          ELSE result[k]],
                      exampleNames, i + 1)
\* README.md:223-233  exampleNames are the names drawn by the generator
composeRandomUser(template, exampleNames) == ReplaceUsers(template, exampleNames, 1)
\* README.md:167-178
composePrompt(state, template, exampleNames) ==
    composeRandomUser(Handlebars(template, state), exampleNames)

InitPrompt ==
    /\ latestResponseIds = [a \in Agents |-> 0]
    /\ heap = << >>
    /\ runs = << >>
    /\ nTimeouts = 0
    /\ nFaults = 0
    /\ memories = {}
    /\ reactions = << >>
    /\ logging = NoLogging
    /\ tplgen = NoTplgen
    /\ portSearch = NoPortSearch
    /\ parsing = NoParsing
    /\ logBuffer = << >>
    /\ prompting \in {[pc |-> "called", state |-> state, template |-> template,
                       result |-> << >>] : state \in States, template \in Templates}
    /\ dispatching = NoDispatching
    /\ composing = NoComposing

\* README.md:167-178  one call of composePrompt({ state, template }), with
\* the RandomUserCount names the generator returns in this call
ComposePrompt(exampleNames) ==
    /\ prompting.pc = "called"
    /\ prompting' = [prompting EXCEPT
                        !.pc = "returned",
                        !.result = composePrompt(prompting.state, prompting.template,
                                                 exampleNames)]
    /\ UNCHANGED <<handlerVars, serverVars, parsing, logBuffer, dispatching, composing>>

NextPrompt ==
    \E exampleNames \in [1..RandomUserCount -> Names] : ComposePrompt(exampleNames)

SpecPrompt == InitPrompt /\ [][NextPrompt]_vars

\* ---------------------------------------------------------- processActions
\* The action dispatcher (the runtime's processActions, called at
\* bootstrap.ts:1122) as spec section 4.5 describes it: for each action name
\* of the response, in listed order, the registered action is resolved, its
\* validator is invoked and, if it passes, its handler; one after the other.
ActionNames == {"REPLY", "FOLLOW_ROOM", "UNKNOWN_ACTION"}
RegisteredActions == {"REPLY", "FOLLOW_ROOM"}
ActionLists == UNION {[1..n -> ActionNames] : n \in 0..MaxActions}
DispatchEvent(op, index, action) == [op |-> op, index |-> index, action |-> action]

InitDispatch ==
    /\ latestResponseIds = [a \in Agents |-> 0]
    /\ heap = << >>
    /\ runs = << >>
    /\ nTimeouts = 0
    /\ nFaults = 0
    /\ memories = {}
    /\ reactions = << >>
    /\ logging = NoLogging
    /\ tplgen = NoTplgen
    /\ portSearch = NoPortSearch
    /\ parsing = NoParsing
    /\ logBuffer = << >>
    /\ prompting = NoPrompting
    /\ dispatching \in {[NoDispatching EXCEPT !.pc = "resolve", !.actions = actions,
                                              !.index = 1] : actions \in ActionLists}
    /\ composing = NoComposing

\* section 4.5: the next action name is resolved; one with no registered
\* handler is skipped with a warning
ResolveAction ==
    /\ dispatching.pc = "resolve"
    /\ dispatching.index <= Len(dispatching.actions)
    /\ LET action == dispatching.actions[dispatching.index]
       IN  IF action \in RegisteredActions
           THEN dispatching' = [dispatching EXCEPT !.pc = "validate"]
           ELSE dispatching' =
                   [dispatching EXCEPT
                       !.index = @ + 1,
                       !.trace = Append(@, DispatchEvent("skipped", dispatching.index, action))]
    /\ UNCHANGED <<handlerVars, serverVars, parsing, logBuffer, prompting, composing>>

\* section 4.5: the validator returns; the handler is invoked if it passed
ValidateDone(valid) ==
    /\ dispatching.pc = "validate"
    /\ LET action == dispatching.actions[dispatching.index]
       IN  IF valid
           THEN dispatching' =
                   [dispatching EXCEPT
                       !.pc = "handler",
                       !.trace = Append(@, DispatchEvent("started", dispatching.index, action))]
           ELSE dispatching' =
                   [dispatching EXCEPT
                       !.pc = "resolve",
                       !.index = @ + 1,
                       !.trace = Append(@, DispatchEvent("invalid", dispatching.index, action))]
    /\ UNCHANGED <<handlerVars, serverVars, parsing, logBuffer, prompting, composing>>

\* Faulty variant of HandlerDone: a handler that throws ends the dispatch.
HandlerDoneAborts(threw) ==
    /\ dispatching.pc = "handler"
    /\ LET action == dispatching.actions[dispatching.index]
       IN  dispatching' =
              [dispatching EXCEPT
                  !.pc = IF threw THEN "rejected" ELSE "resolve",
                  !.index = @ + 1,
                  !.trace = Append(@, DispatchEvent(IF threw THEN "threw" ELSE "finished",
                                                    dispatching.index, action))]
    /\ UNCHANGED <<handlerVars, serverVars, parsing, logBuffer, prompting, composing>>

\* section 4.5: the handler returns or throws; a throw is caught and logged,
\* and the dispatch goes on with the next action
HandlerDone(threw) ==
    /\ dispatching.pc = "handler"
    /\ LET action == dispatching.actions[dispatching.index]
       IN  dispatching' =
              [dispatching EXCEPT
                  !.pc = "resolve",
                  !.index = @ + 1,
                  !.trace = Append(@, DispatchEvent(IF threw THEN "threw" ELSE "finished",
                                                    dispatching.index, action))]
    /\ UNCHANGED <<handlerVars, serverVars, parsing, logBuffer, prompting, composing>>

\* section 4.5: the dispatcher returns once all actions have been attempted
DispatchReturn ==
    /\ dispatching.pc = "resolve"
    /\ dispatching.index > Len(dispatching.actions)
    /\ dispatching' = [dispatching EXCEPT !.pc = "returned"]
    /\ UNCHANGED <<handlerVars, serverVars, parsing, logBuffer, prompting, composing>>

NextDispatch ==
    \/ ResolveAction
    \/ \E valid \in BOOLEAN : ValidateDone(valid)
    \/ \E threw \in BOOLEAN : HandlerDone(threw)
    \/ DispatchReturn

SpecDispatch == InitDispatch /\ [][NextDispatch]_vars

\* ------------------------------------------------------------ composeState
\* The state composer (the runtime's composeState, called at
\* bootstrap.ts:1002-1008 and 1038) as spec section 4.1 describes it: each
\* selected provider is invoked and its fragment merged under its name; a
\* provider that throws leaves an empty fragment and a logged diagnostic.
ProviderNames == {"TIME", "RECENT_MESSAGES", "WALLET"}
ProviderLists == UNION {[1..n -> ProviderNames] : n \in 0..MaxProviders}
\* the fragment a provider returns, and the fragment recorded for a failure
Fragment(provider) == <<provider, "text">>
EmptyFragment == << >>
\* the state with the fragment merged under the provider's name
Merge(state, provider, fragment) ==
    [name \in DOMAIN state \cup {provider} |->
        IF name = provider THEN fragment ELSE state[name]]

InitCompose ==
    /\ latestResponseIds = [a \in Agents |-> 0]
    /\ heap = << >>
    /\ runs = << >>
    /\ nTimeouts = 0
    /\ nFaults = 0
    /\ memories = {}
    /\ reactions = << >>
    /\ logging = NoLogging
    /\ tplgen = NoTplgen
    /\ portSearch = NoPortSearch
    /\ parsing = NoParsing
    /\ logBuffer = << >>
    /\ prompting = NoPrompting
    /\ dispatching = NoDispatching
    /\ composing \in {[NoComposing EXCEPT !.pc = "providers", !.providers = providers,
                                          !.index = 1] : providers \in ProviderLists}

\* Faulty variant of ProviderDone: a provider that throws ends the
\* composition.
ProviderDoneAborts(threw) ==
    /\ composing.pc = "providers"
    /\ composing.index <= Len(composing.providers)
    /\ LET provider == composing.providers[composing.index]
       IN  composing' =
              [composing EXCEPT
                  !.pc = IF threw THEN "rejected" ELSE "providers",
                  !.index = @ + 1,
                  !.threw = Append(@, threw),
                  !.state = IF threw THEN @ ELSE Merge(@, provider, Fragment(provider))]
    /\ UNCHANGED <<handlerVars, serverVars, parsing, logBuffer, prompting, dispatching>>

\* section 4.1: the next provider returns its fragment, or throws
ProviderDone(threw) ==
    /\ composing.pc = "providers"
    /\ composing.index <= Len(composing.providers)
    /\ LET provider == composing.providers[composing.index]
       IN  composing' =
              [composing EXCEPT
                  !.index = @ + 1,
                  !.threw = Append(@, threw),
                  !.state = Merge(@, provider,
                                  IF threw THEN EmptyFragment ELSE Fragment(provider)),
                  !.logs = IF threw THEN Append(@, provider) ELSE @]
    /\ UNCHANGED <<handlerVars, serverVars, parsing, logBuffer, prompting, dispatching>>

\* section 4.1: composeState returns the state once every provider has run
ComposeReturn ==
    /\ composing.pc = "providers"
    /\ composing.index > Len(composing.providers)
    /\ composing' = [composing EXCEPT !.pc = "returned"]
    /\ UNCHANGED <<handlerVars, serverVars, parsing, logBuffer, prompting, dispatching>>

NextCompose ==
    \/ \E threw \in BOOLEAN : ProviderDone(threw)
    \/ ComposeReturn

SpecCompose == InitCompose /\ [][NextCompose]_vars

\* ------------------------------------------------------ the log stream
\* part_002:95-107 and 576-640, logger.ts:86-94 and 155-170.  The n-th log
\* line the logger writes is the entry n.  The emitter calls its listeners in
\* the order they subscribed: addToLogBuffer (subscribed when the module is
\* loaded), then the listener of every connected stream client.  What a
\* client is sent is the sequence of the lines written to its response; the
\* heartbeat and the four-hour notice are no log entries and are left out.
ConnectedLine == [kind |-> "connected", data |-> 0]
LogLine(logData) == [kind |-> "log", data |-> logData]

\* part_002:576-616  GET /logs/stream: the connection message, the buffered
\* entries in the buffer's order, then the subscription; all without an await
LogStreamConnect ==
    /\ Len(logging.clients) < MaxLogClients
    /\ logging' = [logging EXCEPT !.clients = Append(@,
           [open |-> TRUE,
            stream |-> <<ConnectedLine>> \o
                       [k \in 1..Len(logBuffer) |-> LogLine(logBuffer[k])]])]
    /\ UNCHANGED <<handlerVars, libraryVars, tplgen, portSearch>>

\* logger.ts:86-94  a log line is written: every subscriber is called with it
LogEmit ==
    /\ logging.emitted < MaxLogs
    /\ \E logData \in {logging.emitted + 1} :
          /\ logBuffer' = addToLogBuffer(logBuffer, logData)
          /\ logging' = [emitted |-> logData,
                         clients |-> [c \in 1..Len(logging.clients) |->
                             IF logging.clients[c].open
                             THEN [logging.clients[c] EXCEPT
                                      !.stream = Append(@, LogLine(logData))]
                             ELSE logging.clients[c]]]
    /\ UNCHANGED <<handlerVars, parsing, prompting, dispatching, composing,
                   tplgen, portSearch>>

\* part_002:618-627  the request closes: cleanup unsubscribes the client
LogStreamClose(c) ==
    /\ logging.clients[c].open
    /\ logging' = [logging EXCEPT !.clients[c].open = FALSE]
    /\ UNCHANGED <<handlerVars, libraryVars, tplgen, portSearch>>

NextLogs ==
    \/ LogEmit
    \/ LogStreamConnect
    \/ \E c \in 1..Len(logging.clients) : LogStreamClose(c)

SpecLogs == Init /\ [][NextLogs]_vars

\* ------------------------------------------------- the template generator
\* part_002:79-83 and 803-932  POST /tplgen.  The requests share the runtime
\* of the template_generator agent and the module variable
\* oldTplRuntimeData.  A request is suspended at one of its awaits:
\*   loadTemplate      827  await loadCharacterTryPath
\*   ensureConnection  847  await runtime.ensureConnection
\*   addEmbedding      887  await addEmbeddingToMemory
\*   createMemory      888  await createMemory
\*   generateText      893  await generateText          (inside try)
\*   responseMemory    920  await createMemory(response) (inside try)
ModelProviders == {"openai", "anthropic"}
\* secrets of the request body: missing, or the caller's own
Secrets == {"none", "own"}
\* directClient.getTokenForProvider(modelProvider, tpl): the token the
\* template's settings give for the provider
TokenForProvider(modelProvider, secrets) == <<modelProvider, secrets>>
\* the request bodies: modelProvider and description present or not
TplBodies == [valid : BOOLEAN, modelProvider : ModelProviders, secrets : Secrets]
\* what generateText returns: nothing, a text without JSON, a text with JSON
TplResponses == {"empty", "unparseable", "json"}

\* the runtime as the agent was started
InitialRuntime ==
    [modelProvider |-> "openai", characterModelProvider |-> "openai",
     token |-> TokenForProvider("openai", "none")]
InitTplgen ==
    /\ latestResponseIds = [a \in Agents |-> 0]
    /\ heap = << >>
    /\ runs = << >>
    /\ nTimeouts = 0
    /\ nFaults = 0
    /\ memories = {}
    /\ reactions = << >>
    /\ parsing = NoParsing
    /\ logBuffer = << >>
    /\ prompting = NoPrompting
    /\ dispatching = NoDispatching
    /\ composing = NoComposing
    /\ logging = NoLogging
    /\ tplgen = [pc |-> "serving",
                 runtime |-> InitialRuntime,
                 oldTplRuntimeData |-> [saved |-> FALSE, modelProvider |-> "none",
                                        token |-> "none"],
                 requests |-> << >>]
    /\ portSearch = NoPortSearch

\* a request ends with a response status, or with "thrown" when the handler's
\* promise rejects without a response
TplEnd(request, status) == [request EXCEPT !.pc = "done", !.status = status]

\* part_002:926-930  finally: the runtime gets the saved values back
TplRestore(runtime, old) ==
    [modelProvider |-> old.modelProvider,
     characterModelProvider |-> old.modelProvider,
     token |-> old.token]

\* part_002:805-827  the request arrives: 400 without modelProvider or
\* description, 404 without the agent, else the runtime's values are saved
\* when none are saved yet and the template is loaded
TplgenRequest(body, registered) ==
    /\ tplgen.pc = "serving"
    /\ Len(tplgen.requests) < MaxTplRequests
    /\ LET new == [body |-> body, token |-> "none", pc |-> "loadTemplate",
                   status |-> "pending"]
       IN  IF ~body.valid
           THEN tplgen' = [tplgen EXCEPT !.requests = Append(@, TplEnd(new, "400"))]
           ELSE IF ~registered
           THEN tplgen' = [tplgen EXCEPT !.requests = Append(@, TplEnd(new, "404"))]
           ELSE tplgen' = [tplgen EXCEPT
                    !.requests = Append(@, new),
                    !.oldTplRuntimeData =
                        IF @.saved THEN @
                        ELSE [saved |-> TRUE,
                              modelProvider |-> tplgen.runtime.modelProvider,
                              token |-> tplgen.runtime.token]]
    /\ UNCHANGED <<handlerVars, libraryVars, logging, portSearch>>

\* part_002:827-847  the template is loaded: 500 without it, else the token
\* is computed and the runtime is set to the request's provider and token
\* when they differ
TplgenLoadTemplateDone(i, found) ==
    LET request == tplgen.requests[i]
        token == TokenForProvider(request.body.modelProvider, request.body.secrets)
        runtime == tplgen.runtime
    IN  /\ tplgen.pc = "serving"
        /\ request.pc = "loadTemplate"
        /\ IF ~found
           THEN tplgen' = [tplgen EXCEPT !.requests[i] = TplEnd(request, "500")]
           ELSE tplgen' = [tplgen EXCEPT
                    !.requests[i] = [request EXCEPT !.pc = "ensureConnection",
                                                    !.token = token],
                    !.runtime =
                        IF \/ runtime.characterModelProvider # request.body.modelProvider
                           \/ runtime.token # token
                        THEN [modelProvider |-> request.body.modelProvider,
                              characterModelProvider |-> request.body.modelProvider,
                              token |-> token]
                        ELSE runtime]
        /\ UNCHANGED <<handlerVars, libraryVars, logging, portSearch>>

\* part_002:847-893  an await before the try block returns
TplgenSetupDone(i) ==
    LET request == tplgen.requests[i]
    IN  /\ tplgen.pc = "serving"
        /\ request.pc \in {"ensureConnection", "addEmbedding", "createMemory"}
        /\ tplgen' = [tplgen EXCEPT !.requests[i].pc =
               CASE request.pc = "ensureConnection" -> "addEmbedding"
                 [] request.pc = "addEmbedding" -> "createMemory"
                 [] request.pc = "createMemory" -> "generateText"]
        /\ UNCHANGED <<handlerVars, libraryVars, logging, portSearch>>

\* part_002:893-930  generateText returns: 500 and return without a response
\* text, a throw into the catch block (500) without JSON in it, else the
\* response memory is written; return and catch both pass the finally block
TplgenGenerateTextDone(i, response) ==
    LET request == tplgen.requests[i]
    IN  /\ tplgen.pc = "serving"
        /\ request.pc = "generateText"
        /\ IF response = "json"
           THEN tplgen' = [tplgen EXCEPT !.requests[i].pc = "responseMemory"]
           ELSE tplgen' = [tplgen EXCEPT
                    !.requests[i] = TplEnd(request, "500"),
                    !.runtime = TplRestore(@, tplgen.oldTplRuntimeData)]
        /\ UNCHANGED <<handlerVars, libraryVars, logging, portSearch>>

\* part_002:920-930  the response memory is written: res.json, then finally
TplgenResponseMemoryDone(i) ==
    LET request == tplgen.requests[i]
    IN  /\ tplgen.pc = "serving"
        /\ request.pc = "responseMemory"
        /\ tplgen' = [tplgen EXCEPT
               !.requests[i] = TplEnd(request, "200"),
               !.runtime = TplRestore(@, tplgen.oldTplRuntimeData)]
        /\ UNCHANGED <<handlerVars, libraryVars, logging, portSearch>>

\* an awaited call rejects: inside the try block (890-930) the catch block
\* answers 500 and the finally block runs; before it (827-888) the handler's
\* promise rejects and nothing else of the handler runs
TplgenReject(i) ==
    LET request == tplgen.requests[i]
    IN  /\ tplgen.pc = "serving"
        /\ request.pc \notin {"done"}
        /\ IF request.pc \in {"generateText", "responseMemory"}
           THEN tplgen' = [tplgen EXCEPT
                    !.requests[i] = TplEnd(request, "500"),
                    !.runtime = TplRestore(@, tplgen.oldTplRuntimeData)]
           ELSE tplgen' = [tplgen EXCEPT !.requests[i] = TplEnd(request, "thrown")]
        /\ UNCHANGED <<handlerVars, libraryVars, logging, portSearch>>

NextTplgen ==
    \/ \E body \in TplBodies, registered \in BOOLEAN : TplgenRequest(body, registered)
    \/ \E i \in 1..Len(tplgen.requests) :
          \/ \E found \in BOOLEAN : TplgenLoadTemplateDone(i, found)
          \/ TplgenSetupDone(i)
          \/ \E response \in TplResponses : TplgenGenerateTextDone(i, response)
          \/ TplgenResponseMemoryDone(i)
          \/ TplgenReject(i)

SpecTplgen == InitTplgen /\ [][NextTplgen]_vars

\* --------------------------------------------------- the free-port search
\* agent/src/index.ts:1196-1213 and 1270-1276 (cli/src/commands/start.ts:
\* 599-615 and 937-940 are the same code).  What a listen attempt on a port
\* leads to is the environment's: the 'listening' event, the 'error' event
\* with code EADDRINUSE, or the 'error' event with another code (EACCES,
\* EADDRNOTAVAIL).  The outcome is chosen for the first MaxPorts ports; the
\* ports after them are free.
ListenOutcomes == {"listening", "EADDRINUSE", "EACCES"}
ChosenPorts == DefaultPort..(DefaultPort + MaxPorts - 1)
OutcomeOf(listenOutcome, port) ==
    IF port \in ChosenPorts THEN listenOutcome[port] ELSE "listening"

InitPortSearch ==
    /\ latestResponseIds = [a \in Agents |-> 0]
    /\ heap = << >>
    /\ runs = << >>
    /\ nTimeouts = 0
    /\ nFaults = 0
    /\ memories = {}
    /\ reactions = << >>
    /\ parsing = NoParsing
    /\ logBuffer = << >>
    /\ prompting = NoPrompting
    /\ dispatching = NoDispatching
    /\ composing = NoComposing
    /\ logging = NoLogging
    /\ tplgen = NoTplgen
    /\ portSearch \in {[pc |-> "loop", serverPort |-> DefaultPort, promise |-> "none",
                         listenOutcome |-> listenOutcome] :
                            listenOutcome \in [ChosenPorts -> ListenOutcomes]}

\* index.ts:1196-1211  checkPortAvailable(serverPort) is called by the loop
\* condition: a server is created, the two handlers are registered and
\* listen is called; the promise is returned pending
CheckPortAvailable ==
    /\ portSearch.pc = "loop"
    /\ portSearch' = [portSearch EXCEPT !.pc = "listen", !.promise = "pending"]
    /\ UNCHANGED <<handlerVars, libraryVars, logging, tplgen>>

\* index.ts:1200-1209  the listen attempt settles and the handler of its
\* event runs: 'listening' closes the server and resolves true, 'error'
\* resolves false when the code is EADDRINUSE and does nothing otherwise
ListenSettles ==
    /\ portSearch.pc = "listen"
    /\ portSearch' = [portSearch EXCEPT
           !.pc = "await",
           !.promise =
               CASE OutcomeOf(portSearch.listenOutcome, portSearch.serverPort)
                       = "listening" -> "true"
                 [] OutcomeOf(portSearch.listenOutcome, portSearch.serverPort)
                       = "EADDRINUSE" -> "false"
                 [] OTHER -> "pending"]
    /\ UNCHANGED <<handlerVars, libraryVars, logging, tplgen>>

\* index.ts:1271-1276  the await of the loop condition returns: the loop
\* ends on true, else a warning is logged and the next port is tried
PortLoopContinues ==
    /\ portSearch.pc = "await"
    /\ portSearch.promise # "pending"
    /\ portSearch' =
           IF portSearch.promise = "true"
           THEN [portSearch EXCEPT !.pc = "found"]
           ELSE [portSearch EXCEPT !.pc = "loop", !.serverPort = @ + 1]
    /\ UNCHANGED <<handlerVars, libraryVars, logging, tplgen>>

NextPortSearch ==
    \/ CheckPortAvailable
    \/ ListenSettles
    \/ PortLoopContinues

\* The event loop runs every callback that is ready: a step that is enabled
\* is taken.
SpecPortSearch == InitPortSearch /\ [][NextPortSearch]_vars /\ WF_vars(NextPortSearch)


\* ===================================================================== claims
\* How often an invocation made a collaborator call.
Count(seq, x) == Cardinality({k \in 1..Len(seq) : seq[k] = x})
RunIds == 1..Len(runs)
ShouldCalls(i) == Count(runs[i].calls, "useModel:shouldRespond")
MainCalls(i) == Count(runs[i].calls, "useModel:messageHandler")
MessageWrites(i) == Count(runs[i].calls, "createMemory")
ResponseWrites(i) == Count(runs[i].calls, "createMemory:response")
Dispatches(i) == Count(runs[i].calls, "processActions")
Evaluations(i) == Count(runs[i].calls, "evaluate")
TerminalEvents(i) ==
    Cardinality({k \in 1..Len(runs[i].events) :
                    runs[i].events[k].type \in {"RUN_ENDED", "RUN_TIMEOUT"}})
SameRoom(i, j) ==
    /\ runs[i].agentId = runs[j].agentId
    /\ runs[i].message.roomId = runs[j].message.roomId
\* the parsed decision of invocation i is an object with this action
Decided(i, action) ==
    /\ runs[i].pc \notin {"emitStarted", "persist", "userState", "composeShould", "shouldModel"}
    /\ ~runs[i].responseObject.isNull
    /\ runs[i].responseObject.action = action
\* invocation i leaves the retry loop in this step, i.e. performs its
\* freshness check
ChecksFreshness(i) == runs[i].pc = "mainModel" /\ runs'[i].pc # "mainModel"
\* processing of invocation i ended without entering the catch block
EndedNormally(i) == runs[i].pc = "done" /\ runs[i].error = "none"

C2_StaleStillEvaluates ==
    \A i \in RunIds :
        (runs[i].discarded /\ runs[i].pc = "done") => Evaluations(i) = 1

\* C3: a run is closed exactly once: never more than one terminal lifecycle
\* event, and exactly one once processing has settled and the timer is
\* cleared or has run.
C3_ExactlyOneTerminalEvent ==
    \A i \in RunIds :
        /\ TerminalEvents(i) <= 1
        /\ (runs[i].pc = "done" /\ runs[i].timer \in {"cleared", "fired"})
           => TerminalEvents(i) = 1

\* C4: after an IGNORE decision the run makes no main-model call, writes no
\* response memory and dispatches nothing, and the evaluator is called once:
\* never twice, and once as soon as the full state is composed, so in every
\* run that ends without a rejected collaborator call.
C4_IgnoreStillEvaluates ==
    \A i \in RunIds :
        Decided(i, "IGNORE")
        => /\ MainCalls(i) = 0
           /\ ResponseWrites(i) = 0
           /\ Dispatches(i) = 0
           /\ Evaluations(i) <= 1
           /\ (runs[i].pc \in {"evaluate", "emitEnded"} \/ EndedNormally(i))
              => Evaluations(i) = 1
           /\ runs[i].error = "none" => runs[i].pc \in {"composeFull", "evaluate", "emitEnded", "done"}

C4_Witness ==
    \E i \in RunIds :
        /\ Decided(i, "IGNORE")
        /\ EndedNormally(i)
        /\ Evaluations(i) = 1
        /\ Dispatches(i) = 0

\* C5: a RESPOND run whose first main-model call returns a complete content
\* makes exactly one main-model call; if its response id is current at the
\* freshness check it then writes exactly one response memory and dispatches
\* exactly once.
C5_RespondOnce ==
    \A i \in RunIds :
        (Decided(i, "RESPOND") /\ runs[i].retries = 1 /\ runs[i].responseContent = CompleteContent)
        => /\ MainCalls(i) = 1
           /\ runs[i].pc # "mainModel"
           /\ ~runs[i].discarded
              => /\ ResponseWrites(i) = 1
                 /\ Dispatches(i) = (IF runs[i].pc = "responseMemory" THEN 0 ELSE 1)

C5_Witness ==
    \E i, j \in RunIds :
        /\ i < j
        /\ SameRoom(i, j)
        /\ Decided(i, "RESPOND")
        /\ runs[i].retries = 1
        /\ runs[i].responseContent = CompleteContent
        /\ EndedNormally(i)
        /\ ~runs[i].discarded
        /\ ResponseWrites(i) = 1
        /\ Dispatches(i) = 1

\* C6: main-model calls, response memories and action dispatch occur only in
\* a run whose parsed decision has the action "RESPOND".
C6_OnlyRespondDispatches ==
    \A i \in RunIds :
        (MainCalls(i) > 0 \/ ResponseWrites(i) > 0 \/ Dispatches(i) > 0)
        => Decided(i, "RESPOND")

C6_Witness ==
    /\ \E i \in RunIds :
          /\ \E action \in {"undefined", "STOP", "respond"} : Decided(i, action)
          /\ EndedNormally(i)
          /\ Dispatches(i) = 0
          /\ MainCalls(i) = 0

\* C7: every invocation writes the incoming message to the message store: once
\* processing has begun the createMemory call for it has been made.
C7_AlwaysPersists ==
    \A i \in RunIds :
        /\ runs[i].pc # "emitStarted" => MessageWrites(i) = 1
        /\ ShouldCalls(i) > 0 => MessageWrites(i) = 1

\* C8: a message sent by the agent itself leads to no model call, no dispatch
\* and no evaluator call; processing goes straight to the catch block.
C8_SelfMessageAborts ==
    \A i \in RunIds :
        runs[i].message.entityId = runs[i].agentId
        => /\ ShouldCalls(i) = 0
           /\ MainCalls(i) = 0
           /\ Dispatches(i) = 0
           /\ Evaluations(i) = 0
           /\ runs[i].pc \in {"emitStarted", "emitEndedError", "done"}

C8_Witness ==
    \E i \in RunIds :
        /\ runs[i].message.entityId = runs[i].agentId
        /\ runs[i].pc = "done"
        /\ runs[i].promise = "rejected:error"

\* C9: a RESPOND run that entered the retry loop has made between one and
\* maxRetries main-model calls; a further call is made only right after a
\* content with a missing required field, and a complete content ends the loop.
C9_BoundedRetry ==
    /\ [](\A i \in RunIds :
            /\ MainCalls(i) <= 3
            /\ (runs[i].shouldRespond /\ runs[i].pc \in {"mainModel", "responseMemory", "actions"})
               => MainCalls(i) >= 1)
    /\ [][\A i \in RunIds :
            /\ (runs[i].pc = "mainModel" /\ MainCalls(i)' = MainCalls(i) + 1)
               => runs'[i].responseContent # CompleteContent
            /\ (runs[i].pc = "mainModel" /\ runs'[i].retries = runs[i].retries + 1
                   /\ runs'[i].responseContent = CompleteContent)
               => runs'[i].pc # "mainModel" /\ MainCalls(i)' = MainCalls(i)]_vars

C9_Witness ==
    \E i \in RunIds :
        /\ MainCalls(i) = 3
        /\ runs[i].responseContent = CompleteContent
        /\ Dispatches(i) = 1

\* C10: when every attempt of the retry loop yields a content with a missing
\* required field (an unparseable output included), no error is raised for it:
\* the run leaves the loop, and unless a collaborator call rejects it goes on
\* with the last content to dispatch, evaluation and the completion event.
C10_ExhaustedRetriesProceed ==
    \A i \in RunIds :
        (runs[i].retries >= 3 /\ runs[i].responseContent # CompleteContent)
        => /\ runs[i].pc # "mainModel"
           /\ runs[i].error \in {"none"} \cup FaultPoints
           /\ (runs[i].error = "none" /\ ~runs[i].discarded)
              => /\ runs[i].pc \in {"responseMemory", "actions", "evaluate", "emitEnded", "done"}
                 /\ ResponseWrites(i) = (IF runs[i].responseContent.isNull THEN 0 ELSE 1)
                 /\ runs[i].pc # "responseMemory" => Dispatches(i) = 1
                 /\ runs[i].pc \in {"evaluate", "emitEnded", "done"} => Evaluations(i) = 1
                 /\ runs[i].pc \in {"emitEnded", "done"}
                    => runs[i].events = <<RunStartedEvent, RunEndedEvent>>

C10_Witness ==
    \E i \in RunIds :
        /\ runs[i].retries = 3
        /\ runs[i].responseContent.isNull
        /\ EndedNormally(i)
        /\ Dispatches(i) = 1
        /\ runs[i].promise = "resolved"


C12_StatusDistinguishesOutcomes ==
    \A i \in RunIds :
        \A k \in 1..Len(runs[i].events) :
            LET e == runs[i].events[k]
            IN  /\ e.type = "RUN_TIMEOUT" => e.status = "timeout"
                /\ (e.type = "RUN_ENDED" /\ e.error = "none") => e.status = "completed"
                /\ (e.type = "RUN_ENDED" /\ e.error # "none") => e.status # "completed"

\* C13: when the timer has fired (it fires only while processing has not
\* settled), the RUN_TIMEOUT event has been emitted and, once the timer
\* callback has run, the handler's promise is rejected with the timeout error.
C13_TimeoutRejectsHandler ==
    \A i \in RunIds :
        /\ runs[i].timer \in {"firing", "fired"}
           => Count(runs[i].events, RunTimeoutEvent) = 1
        /\ runs[i].timer = "fired" => runs[i].promise = "rejected:timeout"

\* one sequence is an initial part of the other
IsPrefix(a, b) == Len(a) <= Len(b) /\ \A k \in 1..Len(a) : a[k] = b[k]

\* C14: the run timeout does not cancel processing.  A step of the timer
\* changes nothing of processing (position, calls made, error, the shared
\* map); no call once made is taken back; and in every state in which the
\* handler has been rejected by the timeout, the step of the invocation that
\* writes the response memory, dispatches or calls the evaluators is enabled
\* as it is without a timeout.
C14_TimeoutDoesNotCancel ==
    /\ [][\A i \in RunIds :
            /\ runs'[i].timer # runs[i].timer /\ runs'[i].timer \in {"firing", "fired"}
               => /\ runs'[i].pc = runs[i].pc
                  /\ runs'[i].calls = runs[i].calls
                  /\ runs'[i].error = runs[i].error
                  /\ heap' = heap
                  /\ latestResponseIds' = latestResponseIds
            /\ IsPrefix(runs[i].calls, runs'[i].calls)]_vars
    /\ [](\A i \in RunIds :
            runs[i].promise = "rejected:timeout"
            => /\ runs[i].pc = "mainModel" => ENABLED MainModelDone(i, CompleteContent)
               /\ runs[i].pc = "responseMemory" => ENABLED ResponseMemoryDone(i)
               /\ runs[i].pc = "actions" => ENABLED ActionsDone(i)
               /\ runs[i].pc = "evaluate" => ENABLED EvaluateDone(i))

\* A run whose RUN_TIMEOUT event preceded its completion and whose handler was
\* rejected by the timeout, and which has written its response memory,
\* dispatched and evaluated all the same.
C14_Witness ==
    \E i \in RunIds :
        /\ runs[i].promise = "rejected:timeout"
        /\ runs[i].events = <<RunStartedEvent, RunTimeoutEvent, RunEndedEvent>>
        /\ runs[i].pc = "done"
        /\ ResponseWrites(i) = 1
        /\ Dispatches(i) = 1
        /\ Evaluations(i) = 1


\* C15: reactionReceivedHandler treats a duplicate-key failure of createMemory
\* as a no-op and propagates no createMemory failure at all: every invocation
\* makes the one createMemory call and no other, its promise never rejects and
\* is resolved when it ends, a failure is only logged (a warning for code
\* 23505, an error otherwise), and the store holds exactly the ids whose
\* createMemory succeeded.
C15_ReactionNeverPropagates ==
    /\ \A i \in 1..Len(reactions) :
          LET r == reactions[i]
          IN  /\ r.calls = <<"createMemory">>
              /\ r.promise # "rejected"
              /\ r.pc = "done" => r.promise = "resolved"
              /\ r.code = "23505" => Len(r.logs) = 1 /\ r.logs[1] = "warn: Duplicate reaction memory, skipping"
              /\ r.code \notin {"none", "23505"} => Len(r.logs) = 1
              /\ r.code = "none" => r.logs = << >>
    /\ memories =
          {reactions[i].message : i \in {j \in 1..Len(reactions) :
                                           reactions[j].pc = "done" /\ reactions[j].code = "none"}}

C15_Witness ==
    \E i, j \in 1..Len(reactions) :
        /\ reactions[i].code = "23505"
        /\ reactions[i].promise = "resolved"
        /\ reactions[j].code = "ECONNRESET"
        /\ reactions[j].promise = "resolved"


\* the id the shared map holds for (agent, room), Undefined when it holds none
TrackedId(agentId, roomId) ==
    IF latestResponseIds[agentId] = 0
    THEN Undefined
    ELSE heap[latestResponseIds[agentId]][roomId]
\* the same, in the state a step leads to
TrackedIdNext(agentId, roomId) ==
    IF latestResponseIds'[agentId] = 0
    THEN Undefined
    ELSE heap'[latestResponseIds'[agentId]][roomId]
RunsOf(agentId, roomId) ==
    {i \in RunIds : runs[i].agentId = agentId /\ runs[i].message.roomId = roomId}

\* C16: an entry the shared map holds for (agent, room) is the response id of
\* the most recently started invocation for that pair; and every start leaves
\* its own id in the map, an id no earlier invocation has.
C16_EntryIsLatestStarted ==
    /\ [](\A agentId \in Agents, roomId \in Rooms :
            TrackedId(agentId, roomId) # Undefined
            => \E i \in RunsOf(agentId, roomId) :
                  /\ TrackedId(agentId, roomId) = runs[i].responseId
                  /\ \A j \in RunsOf(agentId, roomId) : j <= i)
    /\ [][Len(runs') = Len(runs) + 1
            => LET n == runs'[Len(runs')]
               IN  /\ TrackedIdNext(n.agentId, n.message.roomId) = n.responseId
                   /\ \A j \in RunIds : runs[j].responseId # n.responseId]_vars

C16_Witness ==
    \E i, j \in RunIds :
        /\ i < j
        /\ SameRoom(i, j)
        /\ runs[i].pc = "mainModel"
        /\ TrackedId(runs[j].agentId, runs[j].message.roomId) = runs[j].responseId

\* C17: when no invocation for (agent, room) is in progress, the shared map
\* holds no entry for (agent, room).
C17_EntryDeletedWhenIdle ==
    \A agentId \in Agents, roomId \in Rooms :
        (\A i \in RunsOf(agentId, roomId) : runs[i].pc = "done")
        => TrackedId(agentId, roomId) = Undefined

\* an invocation between passing its freshness check and the return of
\* processActions
InDeliveryPath(i) == runs[i].pc \in {"responseMemory", "actions"}

\* C18: two invocations for the same (agent, room) are never in their
\* delivery paths at the same time.
C18_OneDeliveryPathPerRoom ==
    \A i, j \in RunIds :
        (i # j /\ SameRoom(i, j)) => ~(InDeliveryPath(i) /\ InDeliveryPath(j))

\* C19: a step of an invocation of one agent (its start, freshness check or
\* cleanup) changes nothing the map tracks for another agent: not the other
\* agent's entry, not an inner map one of its invocations holds; and an
\* invocation is discarded as stale only when another invocation of the same
\* agent exists for its room.
C19_TrackingScopedPerAgent ==
    /\ [][\A other \in Agents :
            (\A i \in 1..Len(runs') :
                (i > Len(runs) \/ runs'[i] # runs[i]) => runs'[i].agentId # other)
            => /\ latestResponseIds'[other] = latestResponseIds[other]
               /\ \A roomId \in Rooms : TrackedIdNext(other, roomId) = TrackedId(other, roomId)
               /\ \A j \in RunIds :
                     runs[j].agentId = other
                     => heap'[runs[j].agentResponses] = heap[runs[j].agentResponses]]_vars
    /\ [](\A i \in RunIds :
            runs[i].discarded => \E j \in RunIds : j # i /\ SameRoom(i, j))

C19_Witness ==
    \E i, j \in RunIds :
        /\ runs[i].agentId # runs[j].agentId
        /\ runs[i].message.roomId = runs[j].message.roomId
        /\ runs[i].pc = "actions"
        /\ runs[j].pc = "actions"
        /\ ResponseWrites(i) = 1
        /\ ResponseWrites(j) = 1

\* C20: the message-store write of an invocation is issued only when every
\* earlier invocation of the same agent has issued its own.
C20_PersistInArrivalOrder ==
    [][\A j \in RunIds :
          (runs[j].pc = "emitStarted" /\ runs'[j].pc = "persist")
          => \A i \in RunIds :
                (i < j /\ runs[i].agentId = runs[j].agentId) => MessageWrites(i) = 1]_vars


\* ------------------------------------------------- the response parser
\* C21: parseJSONObjectFromText returns a parsed object or array or null for
\* every text, and the call changes no state besides returning its value.
C21_ParserTotalAndPure ==
    parsing.pc = "returned"
    => /\ parsing.result.kind \in {"object", "array", "null"}
       /\ logBuffer = << >>

\* the fenced blocks of a text: where the contents of each start and end
FencedBlocks(text) ==
    {b \in (1..Len(text)) \X (1..Len(text)) :
        /\ StartsWithAt(text, b[1], OpenFence)
        /\ b[2] >= b[1] + Len(OpenFence)
        /\ StartsWithAt(text, b[2], CloseFence)
        /\ \A j \in (b[1] + Len(OpenFence))..(b[2] - 1) :
              ~StartsWithAt(text, j, CloseFence)}
BlockContents(text, b) == SubSeq(text, b[1] + Len(OpenFence), b[2] - 1)
FirstBlock(text) ==
    CHOOSE b \in FencedBlocks(text) : \A c \in FencedBlocks(text) : b[1] <= c[1]
\* what JSON.parse makes of a text, as the parser returns it
ObjectOrNull(s) ==
    IF JSONParse(s).kind = "object"
    THEN [kind |-> "object", canon |-> JSONParse(s).canon]
    ELSE NullValue

\* C22: for a text that holds a fenced json block, the result is what the
\* contents of the first such block parse to, whatever else the text holds.
C22_FirstFencedBlockWins ==
    (parsing.pc = "returned" /\ FencedBlocks(parsing.text) # {})
    => parsing.result =
          ObjectOrNull(Trim(BlockContents(parsing.text, FirstBlock(parsing.text))))

C22_Witness ==
    /\ parsing.pc = "returned"
    /\ parsing.text = FencedA \o FencedB
    /\ parsing.result = [kind |-> "object", canon |-> <<"{", "\"", "a", "\"", ":", "1", "}">>]

\* an object-shaped substring of the text that parses after normalization
HasParseableObject(text) ==
    \E i, j \in 1..Len(text) :
        /\ i < j
        /\ text[i] = "{"
        /\ text[j] = "}"
        /\ JSONParse(normalizeJsonString(SubSeq(text, i, j))).kind = "object"
\* the text holds no fenced block, or one whose contents do not parse
BlockMissingOrBroken(text) ==
    \/ FencedBlocks(text) = {}
    \/ ~JSONParse(Trim(BlockContents(text, FirstBlock(text)))).ok

\* C23: without a fenced block, or with one whose contents do not parse, the
\* result is null only if no object-shaped substring of the raw text parses
\* after normalization.
C23_FallsBackToSubstring ==
    (/\ parsing.pc = "returned"
     /\ BlockMissingOrBroken(parsing.text)
     /\ parsing.result = NullValue)
    => ~HasParseableObject(parsing.text)

\* C24: the unfenced text {a: 1, b: 'x'} yields the object with a = 1 and
\* b = "x", and the text "no data here" yields null.
C24_RepairsBarewordKeys ==
    parsing.pc = "returned"
    => /\ parsing.text = BarewordObject
          => parsing.result =
                [kind |-> "object",
                 canon |-> <<"{", "\"", "a", "\"", ":", "1", ",",
                             "\"", "b", "\"", ":", "\"", "x", "\"", "}">>]
       /\ parsing.text = Prose => parsing.result = NullValue

\* C25: normalizing what normalizeJsonString returned returns it unchanged.
C25_NormalizeIdempotent ==
    \A k \in 2..Len(parsing.normalized) :
        parsing.normalized[k] = parsing.normalized[k - 1]


\* the names of the generic placeholders {{user1}} .. {{user10}}
GenericUsers ==
    {"user1", "user2", "user3", "user4", "user5",
     "user6", "user7", "user8", "user9", "user10"}

\* C26: wherever the template has a placeholder {{user1}} .. {{user10}} the
\* rendered prompt shows a generated name, the same name at every occurrence
\* of the same placeholder.
C26_TemplateUsersGetNames ==
    prompting.pc = "returned"
    => \A k \in 1..Len(prompting.template) :
          (prompting.template[k].mustache /\ prompting.template[k].text \in GenericUsers)
          => /\ prompting.result[k] \in Names
             /\ \A j \in 1..Len(prompting.template) :
                   prompting.template[j] = prompting.template[k]
                   => prompting.result[j] = prompting.result[k]


\* ------------------------------------------- dispatcher and state composer
\* the events of the dispatch trace with one of the given outcomes
TraceOf(ops) ==
    SelectSeq(dispatching.trace, LAMBDA e : e.op \in ops)
\* the indices of a sequence of trace events
IndicesOf(events) == [k \in 1..Len(events) |-> events[k].index]
Increasing(seq) == \A j, k \in 1..Len(seq) : j < k => seq[j] < seq[k]

\* C27: the dispatch never ends with an exception; the actions are attempted
\* one at a time in listed order (a handler starts only at the action that
\* follows the last one attempted, with no handler running); and when the
\* dispatch has returned every listed action was attempted exactly once: an
\* unregistered name skipped, a registered one validated and, the validator
\* passing, its handler invoked once and finished or caught.
C27_DispatchIsolatesActions ==
    /\ dispatching.pc # "rejected"
    /\ Increasing(IndicesOf(TraceOf({"skipped", "invalid", "started"})))
    /\ LET started == TraceOf({"started"})
           ended == TraceOf({"finished", "threw"})
       IN  /\ Len(ended) = Len(started) - (IF dispatching.pc = "handler" THEN 1 ELSE 0)
           /\ IndicesOf(ended) = SubSeq(IndicesOf(started), 1, Len(ended))
    /\ dispatching.pc = "returned"
       => /\ IndicesOf(TraceOf({"skipped", "invalid", "started"}))
                = [k \in 1..Len(dispatching.actions) |-> k]
          /\ \A e \in {dispatching.trace[k] : k \in 1..Len(dispatching.trace)} :
                /\ e.action = dispatching.actions[e.index]
                /\ e.op = "skipped" <=> e.action \notin RegisteredActions

C27_Witness ==
    /\ dispatching.pc = "returned"
    /\ dispatching.actions = <<"UNKNOWN_ACTION", "REPLY", "FOLLOW_ROOM">>
    /\ dispatching.trace =
          <<DispatchEvent("skipped", 1, "UNKNOWN_ACTION"),
            DispatchEvent("started", 2, "REPLY"),
            DispatchEvent("threw", 2, "REPLY"),
            DispatchEvent("started", 3, "FOLLOW_ROOM"),
            DispatchEvent("finished", 3, "FOLLOW_ROOM")>>

\* the outcome of the last invocation of a provider in this composition
LastThrew(provider) ==
    LET ks == {k \in 1..Len(composing.threw) : composing.providers[k] = provider}
    IN  composing.threw[Greatest(ks)]

\* C28: composeState never ends with an exception; it returns only when
\* every selected provider has been invoked, and the state returned holds
\* the fragment of each provider that did not fail and an empty fragment for
\* each that failed.
C28_ComposeTotalOverFailures ==
    /\ composing.pc # "rejected"
    /\ composing.pc = "returned"
       => /\ Len(composing.threw) = Len(composing.providers)
          /\ DOMAIN composing.state
                = {composing.providers[k] : k \in 1..Len(composing.providers)}
          /\ \A provider \in DOMAIN composing.state :
                composing.state[provider] =
                    IF LastThrew(provider) THEN EmptyFragment ELSE Fragment(provider)

C28_Witness ==
    /\ composing.pc = "returned"
    /\ composing.providers = <<"TIME", "WALLET", "RECENT_MESSAGES">>
    /\ composing.threw = <<FALSE, TRUE, FALSE>>
    /\ composing.state["TIME"] = Fragment("TIME")
    /\ composing.state["RECENT_MESSAGES"] = Fragment("RECENT_MESSAGES")
    /\ composing.state["WALLET"] = EmptyFragment


\* ------------------------------------------------ the commit of a response
\* the order of the commit steps of run i, as far as the run has come
CommitStepsInOrder(i) ==
    LET r == runs[i]
        completions == Count(r.events, RunEndedEvent)
    IN  /\ ResponseWrites(i) <= 1
        /\ Dispatches(i) <= 1
        /\ Evaluations(i) <= 1
        /\ completions <= 1
        /\ r.pc \in {"composeFull", "mainModel"}
           => ResponseWrites(i) + Dispatches(i) + Evaluations(i) + completions = 0
        /\ r.pc = "responseMemory"
           => Dispatches(i) + Evaluations(i) + completions = 0
        /\ r.pc = "actions" => Evaluations(i) + completions = 0
        /\ Evaluations(i) = 1 => Dispatches(i) = 1
        /\ r.pc = "evaluate" => completions = 0
        /\ completions = 1
           => Evaluations(i) = 1 /\ r.pc \in {"emitEnded", "done"}

\* the step that calls the dispatch of run i is the step that removes the
\* tracking entry of the run's room, and no write of the response memory is
\* pending at it
RemovalAtDispatch(i) ==
    (Dispatches(i) = 0 /\ Dispatches(i)' = 1)
    => /\ heap'[runs[i].agentResponses][runs[i].message.roomId] = Undefined
       /\ runs[i].pc \in {"mainModel", "responseMemory"}
       /\ runs[i].pc = "mainModel" => ResponseWrites(i)' = 0

\* C29: in a RESPOND run whose response was not discarded, the response
\* memory write, the removal of the tracking entry, the action dispatch, the
\* evaluator run and the completion event each happen at most once and in
\* this order: nothing of them precedes the freshness check, the entry is
\* removed in the step that calls the dispatch, the evaluator is not called
\* while the dispatch is awaited, and the completion event is not emitted
\* before the evaluator run has returned.
C29_CommitOrder ==
    /\ [](\A i \in RunIds :
             (Decided(i, "RESPOND") /\ ~runs[i].discarded) => CommitStepsInOrder(i))
    /\ [][\A i \in RunIds :
             (Decided(i, "RESPOND") /\ ~runs[i].discarded) => RemovalAtDispatch(i)]_vars

C29_Witness ==
    \E i \in RunIds :
        /\ Decided(i, "RESPOND")
        /\ EndedNormally(i)
        /\ runs[i].calls =
              <<"addEmbeddingToMemory", "createMemory", "getParticipantUserState",
                "composeState", "useModel:shouldRespond", "composeState",
                "useModel:messageHandler", "createMemory:response",
                "processActions", "evaluate">>
        /\ runs[i].events = <<RunStartedEvent, RunEndedEvent>>
        /\ TrackedId(runs[i].agentId, runs[i].message.roomId) = Undefined

\* C30: a should-respond output that parses to null does not end the run with
\* an error.
C30_NullDecisionIsNoError ==
    \A i \in RunIds :
        (ShouldCalls(i) = 1 /\ runs[i].responseObject.isNull)
        => runs[i].error # "TypeError: responseObject is null"


\* ------------------------------------------------------- the cleared timer
TimeoutEvents(i) == Count(runs[i].events, RunTimeoutEvent)

\* C31: when processing has settled (normally, by a return or with an error)
\* and the timer had not fired before, the timer is cleared and the run has
\* no RUN_TIMEOUT event; and from a state where the timer is cleared, no
\* step fires it or adds a RUN_TIMEOUT event to the run.
C31_SettledRunNeverTimesOut ==
    /\ [](\A i \in RunIds :
            (runs[i].pc = "done" /\ runs[i].timer \notin {"firing", "fired"})
            => /\ runs[i].timer = "cleared"
               /\ TimeoutEvents(i) = 0)
    /\ [][\A i \in RunIds :
            runs[i].timer = "cleared"
            => /\ runs'[i].timer = "cleared"
               /\ TimeoutEvents(i)' = 0]_vars

\* a run that ended with an error before its timer fired, and the timer of
\* the behaviour has not been used up by another run
C31_Witness ==
    \E i \in RunIds :
        /\ runs[i].pc = "done"
        /\ runs[i].error # "none"
        /\ runs[i].timer = "cleared"
        /\ nTimeouts < MaxTimeouts


\* ------------------------------------------------ the tracking map's keys
\* the inner maps that exist
Refs == 1..Len(heap)

\* C32: the shared map holds no agent key whose inner map is empty; a step
\* that deletes the last room entry of the inner map an agent's key holds
\* also removes the key; and a step that creates an agent's key creates it
\* with a new inner map that holds exactly one room entry.
C32_NoEmptyInnerMap ==
    /\ [](\A agentId \in Agents :
            latestResponseIds[agentId] # 0
            => MapSize(heap[latestResponseIds[agentId]]) > 0)
    /\ [][\A agentId \in Agents :
            /\ (/\ latestResponseIds[agentId] # 0
                /\ MapSize(heap'[latestResponseIds[agentId]]) = 0)
               => latestResponseIds'[agentId] = 0
            /\ (latestResponseIds[agentId] = 0 /\ latestResponseIds'[agentId] # 0)
               => /\ latestResponseIds'[agentId] \notin Refs
                  /\ MapSize(heap'[latestResponseIds'[agentId]]) = 1]_vars

\* a cleanup has emptied the inner map and removed the agent's key, a later
\* start has created the key again with a new inner map, and an invocation
\* that still holds the old map is in flight
C32_Witness ==
    \E i, j \in RunIds :
        /\ runs[i].agentId = runs[j].agentId
        /\ runs[i].pc \notin {"done"}
        /\ runs[i].agentResponses # latestResponseIds[runs[i].agentId]
        /\ MapSize(heap[runs[i].agentResponses]) = 0
        /\ runs[j].agentResponses = latestResponseIds[runs[j].agentId]


\* -------------------------------------------- the latest invocation's check
\* no invocation for the same (agent, room) was started after invocation i
LatestStarted(i) ==
    \A j \in RunsOf(runs[i].agentId, runs[i].message.roomId) : j <= i

\* C33: an invocation that decided RESPOND and is the most recently started
\* one for its (agent, room) when it performs its freshness check passes the
\* check and goes on to deliver (response memory or dispatch).
C33_LatestPassesCheck ==
    [][\A i \in RunIds :
          (ChecksFreshness(i) /\ LatestStarted(i))
          => /\ ~runs'[i].discarded
             /\ runs'[i].pc \in {"responseMemory", "actions"}]_vars


\* ------------------------------------------------ the inner map invocations hold
\* an invocation that has started and has neither returned nor cleaned up
BeforeCleanup(i) ==
    runs[i].pc \in {"emitStarted", "persist", "userState", "composeShould",
                    "shouldModel", "composeFull", "mainModel", "responseMemory"}
\* in the state a step leads to, inner map ref holds the id of an invocation
\* other than i that is still before its cleanup
HoldsLiveEntryNext(ref, i) ==
    \E j \in RunIds :
        /\ j # i
        /\ BeforeCleanup(j)
        /\ runs'[j].pc = runs[j].pc
        /\ runs[j].agentResponses = ref
        /\ heap'[ref][runs[j].message.roomId] = runs[j].responseId

\* C34: the cleanup of an invocation never removes from the shared map an
\* inner map that, after the cleanup's own delete, still holds the entry of
\* another invocation that is in flight.
C34_CleanupKeepsLiveInnerMap ==
    [][\A i \in RunIds, agentId \in Agents :
          (/\ Dispatches(i) = 0
           /\ Dispatches(i)' = 1
           /\ latestResponseIds[agentId] # 0
           /\ latestResponseIds'[agentId] = 0)
          => ~HoldsLiveEntryNext(latestResponseIds[agentId], i)]_vars


\* ------------------------------------------------------------ muted rooms
\* C35: an invocation that read the participant state MUTED for a message
\* that does not mention the agent's name has issued the write of the message
\* and has returned, with no should-respond call, no main call, no dispatch
\* and no evaluator run; and when the message mentions the name, the step
\* that reads MUTED goes on to the first composeState as it does for any
\* other participant state.
C35_MutedRoomIgnoresUnlessNamed ==
    /\ [](\A i \in RunIds :
            (runs[i].agentUserState = "MUTED" /\ ~runs[i].message.mentionsName)
            => /\ runs[i].pc = "done"
               /\ MessageWrites(i) = 1
               /\ ShouldCalls(i) + MainCalls(i) + Dispatches(i) + Evaluations(i) = 0)
    /\ [][\A i \in RunIds :
            (/\ runs[i].pc = "userState"
             /\ runs'[i].agentUserState # "unread"
             /\ runs[i].message.mentionsName)
            => runs'[i] = [Call(runs[i], "composeState")
                              EXCEPT !.pc = "composeShould",
                                     !.agentUserState = runs'[i].agentUserState]]_vars

C35_Witness ==
    \E i \in RunIds :
        /\ runs[i].agentUserState = "MUTED"
        /\ ~runs[i].message.mentionsName
        /\ runs[i].calls = <<"addEmbeddingToMemory", "createMemory", "getParticipantUserState">>
        /\ runs[i].promise = "resolved"


\* -------------------------------------------------- the run-started event
\* C36: every invocation has exactly one RUN_STARTED event, which is the
\* first of its events; and while the invocation awaits the emission of that
\* event it has made no collaborator call (no write, model call, dispatch or
\* evaluator run), has no other event and has not armed its timer.
C36_RunStartedFirst ==
    \A i \in RunIds :
        /\ Count(runs[i].events, RunStartedEvent) = 1
        /\ runs[i].events[1] = RunStartedEvent
        /\ runs[i].pc = "emitStarted"
           => /\ runs[i].calls = << >>
              /\ runs[i].events = <<RunStartedEvent>>
              /\ runs[i].timer = "unset"

\* a run that went through every step and timed out on the way
C36_Witness ==
    \E i \in RunIds :
        /\ runs[i].pc = "done"
        /\ Dispatches(i) = 1
        /\ Evaluations(i) = 1
        /\ runs[i].events = <<RunStartedEvent, RunTimeoutEvent, RunEndedEvent>>


\* --------------------------------------------------------- the log buffer
Min(a, b) == IF a < b THEN a ELSE b
\* the last k of the first n log entries, oldest first
LastEmitted(n, k) == [j \in 1..k |-> n - k + j]
\* the entries of the log lines a client was sent
LogData(stream) ==
    LET logs == SelectSeq(stream, LAMBDA line : line.kind = "log")
    IN  [k \in 1..Len(logs) |-> logs[k].data]

\* C37: the log buffer never holds more than LOG_BUFFER_SIZE entries and
\* holds exactly the last min(n, LOG_BUFFER_SIZE) of the n entries emitted,
\* oldest first; a client that connects is sent the connection line and then
\* the buffer's entries in that order before it is subscribed; and the
\* entries a client was sent are consecutive, in emission order.
C37_LogBufferIsBoundedFifo ==
    /\ [](/\ Len(logBuffer) <= LOG_BUFFER_SIZE
          /\ logBuffer = LastEmitted(logging.emitted,
                                     Min(logging.emitted, LOG_BUFFER_SIZE))
          /\ \A c \in 1..Len(logging.clients) :
                LET data == LogData(logging.clients[c].stream)
                IN  /\ logging.clients[c].stream[1] = ConnectedLine
                    /\ \A k \in 1..(Len(data) - 1) : data[k + 1] = data[k] + 1)
    /\ [][Len(logging.clients') = Len(logging.clients) + 1
            => LET new == logging.clients'[Len(logging.clients')]
               IN  /\ new.open
                   /\ LogData(new.stream) =
                         LastEmitted(logging.emitted,
                                     Min(logging.emitted, LOG_BUFFER_SIZE))]_vars

\* more entries were emitted than the buffer keeps, a client connected after
\* the first entry was dropped and received a live entry after the replay
C37_Witness ==
    \E c \in 1..Len(logging.clients) :
        LET data == LogData(logging.clients[c].stream)
        IN  /\ logging.emitted > LOG_BUFFER_SIZE + 1
            /\ Len(data) = LOG_BUFFER_SIZE + 1
            /\ data[1] = 2
            /\ data[Len(data)] = logging.emitted


\* ------------------------------------------- the template generator's runtime
\* C38: when every /tplgen request has ended, the runtime's modelProvider
\* and token are those it had before the first request; and while a request
\* awaits generateText, the runtime's modelProvider and token are the ones
\* that request set.
C38_TplgenLeavesRuntimeUnchanged ==
    LET requests == tplgen.requests
    IN  /\ (\A i \in 1..Len(requests) : requests[i].pc = "done")
           => /\ tplgen.runtime.modelProvider = InitialRuntime.modelProvider
              /\ tplgen.runtime.token = InitialRuntime.token
        /\ \A i \in 1..Len(requests) :
              requests[i].pc = "generateText"
              => /\ tplgen.runtime.modelProvider = requests[i].body.modelProvider
                 /\ tplgen.runtime.token = requests[i].token


\* ----------------------------------------------------- the port search ends
\* C39: the promise of checkPortAvailable is resolved once the listen attempt
\* has settled, whatever its outcome; the search ends; and it ends at the
\* first port, from the configured one on, whose listen attempt succeeds.
C39_PortSearchTerminates ==
    /\ [](portSearch.pc = "await" => portSearch.promise \in {"true", "false"})
    /\ <>(portSearch.pc = "found")
    /\ [](portSearch.pc = "found"
          => /\ OutcomeOf(portSearch.listenOutcome, portSearch.serverPort) = "listening"
             /\ \A port \in DefaultPort..(portSearch.serverPort - 1) :
                   OutcomeOf(portSearch.listenOutcome, port) # "listening")

====
